---- MODULE Spec2Model ----
(***************************************************************************)
(* Cross-repository impact correlation (src/src/analyzers/cross-repo.ts),   *)
(* with the parts of the program around it: BaseAnalyzer.deduplicateImpacts *)
(* and getChangedFiles, analyzeRepo and the summary of runAnalysis, and      *)
(* createGitHubCheck with generateAnnotations.                             *)
(*                                                                         *)
(* A JavaScript string is a sequence of one-character strings, so that     *)
(* includes / endsWith / toLowerCase / replace / template concatenation    *)
(* and the glob-to-RegExp translation are computed character by character  *)
(* as the code computes them.                                              *)
(***************************************************************************)
EXTENDS Integers, Sequences, FiniteSets, TLC

VARIABLES
    relations,      \* constructor argument: RelationConfig[]
    repoImpacts,    \* constructor argument: RepoImpacts[]
    pc,             \* position inside analyze()
    ri,             \* index of the relation the for-of loop of analyze() is at
    crossImpacts,   \* analyze(): the raw records collected so far
    emitted,        \* history: emitted[k] = what analyzeRelation returned for relations[k]
    di,             \* index of the raw record the loop of deduplicateCrossImpacts is at
    map,            \* deduplicateCrossImpacts(): the Map, as its entries in insertion order
    result,         \* what analyze() returned
    nextRef,        \* the identity the next array object created gets
    rawRefs,        \* rawRefs[k]: identity of the array crossImpacts[k].targetComponents
    mapRefs,        \* mapRefs[k]: identity of the array map[k].value.targetComponents
    resultRefs,     \* resultRefs[k]: identity of the array result[k].targetComponents
    calls,          \* how many times analyze() was called on this instance
    returned,       \* history: what each completed call of analyze() returned
    gPattern,       \* matchesPattern(filePath, pattern): the argument pattern
    gPath,          \* matchesPattern(filePath, pattern): the argument filePath
    gPc,            \* position of the call of matchesPattern
    gResult,        \* what matchesPattern returned
    bInput,         \* deduplicateImpacts(impacts): the argument as it was at the call
    bImpacts,       \* deduplicateImpacts(impacts): the argument's objects as they are now
    bPc,            \* position inside deduplicateImpacts
    bi,             \* index of the item the loop of deduplicateImpacts is at
    bMap,           \* deduplicateImpacts(): the Map, as its entries in insertion order
    bResult,        \* what deduplicateImpacts returned
    aConfig,        \* analyzeRepo(config): the RepoConfig
    aFindings,      \* what each analyzer type collects in this repository
    aPc,            \* position inside analyzeRepo / runAnalysis
    ai,             \* index of the analyzer type the loop of analyzeRepo is at
    aImpacts,       \* analyzeRepo(): impacts
    handed,         \* runAnalysis(): the RepoImpacts the CrossRepoAnalyzer is built with
    repoResults,    \* runAnalysis(): what analyzeRepo returned for each repository
    crossRepoImpacts, \* runAnalysis(): what crossRepoAnalyzer.analyze() returned
    hasBreakingChanges, \* runAnalysis(): summary.hasBreakingChanges
    annotations,    \* createGitHubCheck(): generateAnnotations(result)
    requests,       \* history: the fetch calls made, with the annotations each carried
    batches,        \* updateCheckWithMoreAnnotations(): batches
    bj,             \* index of the batch the loop over batches is at
    rPc,            \* position inside runAnalysis / createGitHubCheck
    dPc,            \* position inside getChangedFiles
    dLog,           \* history: the git commands getChangedFiles ran, and how each ended
    dFiles          \* what getChangedFiles returned

\* the state of a CrossRepoAnalyzer and of its analyze()
crossVars == <<relations, repoImpacts, pc, ri, crossImpacts, emitted, di, map, result,
               nextRef, rawRefs, mapRefs, resultRefs, calls, returned>>

\* the state of one call of matchesPattern
globVars == <<gPattern, gPath, gPc, gResult>>

\* the state of one call of BaseAnalyzer.deduplicateImpacts
baseVars == <<bInput, bImpacts, bPc, bi, bMap, bResult>>

\* the state of analyzeRepo for one repository, up to the hand-over
pipeVars == <<aConfig, aFindings, aPc, ai, aImpacts, handed>>

\* the summary of runAnalysis and one call of createGitHubCheck
reportVars == <<repoResults, crossRepoImpacts, hasBreakingChanges, annotations,
                requests, batches, bj, rPc>>

\* the state of one call of BaseAnalyzer.getChangedFiles
diffVars == <<dPc, dLog, dFiles>>

vars == <<crossVars, globVars, baseVars, pipeVars, reportVars, diffVars>>

\* no call of matchesPattern is followed
GlobIdle ==
    /\ gPattern = <<>>
    /\ gPath = <<>>
    /\ gPc = "idle"
    /\ gResult = FALSE

\* no call of deduplicateImpacts is followed
BaseIdle ==
    /\ bInput = <<>>
    /\ bImpacts = <<>>
    /\ bPc = "idle"
    /\ bi = 1
    /\ bMap = <<>>
    /\ bResult = <<>>

\* no runAnalysis summary and no createGitHubCheck is followed
ReportIdle ==
    /\ repoResults = <<>>
    /\ crossRepoImpacts = <<>>
    /\ hasBreakingChanges = FALSE
    /\ annotations = <<>>
    /\ requests = <<>>
    /\ batches = <<>>
    /\ bj = 1
    /\ rPc = "idle"

\* no call of getChangedFiles is followed
DiffIdle ==
    /\ dPc = "idle"
    /\ dLog = <<>>
    /\ dFiles = <<>>

\* no analyzeRepo is followed
PipeIdle ==
    /\ aConfig = <<>>
    /\ aFindings = <<>>
    /\ aPc = "idle"
    /\ ai = 1
    /\ aImpacts = <<>>
    /\ handed = <<>>

-----------------------------------------------------------------------------
(* Strings *)

\* String.prototype.includes(p)
includes(s, p) ==
    \E k \in 1..(Len(s) - Len(p) + 1) : SubSeq(s, k, k + Len(p) - 1) = p

\* String.prototype.endsWith(p)
endsWith(s, p) ==
    /\ Len(s) >= Len(p)
    /\ SubSeq(s, Len(s) - Len(p) + 1, Len(s)) = p

\* String.prototype.toLowerCase(), one character
lowerChar(c) ==
    CASE c = "A" -> "a" [] c = "B" -> "b" [] c = "C" -> "c" [] c = "D" -> "d"
      [] c = "E" -> "e" [] c = "F" -> "f" [] c = "G" -> "g" [] c = "H" -> "h"
      [] c = "I" -> "i" [] c = "J" -> "j" [] c = "K" -> "k" [] c = "L" -> "l"
      [] c = "M" -> "m" [] c = "N" -> "n" [] c = "O" -> "o" [] c = "P" -> "p"
      [] c = "Q" -> "q" [] c = "R" -> "r" [] c = "S" -> "s" [] c = "T" -> "t"
      [] c = "U" -> "u" [] c = "V" -> "v" [] c = "W" -> "w" [] c = "X" -> "x"
      [] c = "Y" -> "y" [] c = "Z" -> "z" [] OTHER -> c

\* String.prototype.toLowerCase()
toLowerCase(s) == [k \in 1..Len(s) |-> lowerChar(s[k])]

\* String.prototype.replace(/p/g, r) for a literal p: leftmost matches, left to
\* right, never overlapping, the replacement text not rescanned.
RECURSIVE replaceAll(_, _, _)
replaceAll(s, p, r) ==
    IF Len(s) < Len(p) THEN s
    ELSE IF SubSeq(s, 1, Len(p)) = p
         THEN r \o replaceAll(SubSeq(s, Len(p) + 1, Len(s)), p, r)
         ELSE <<s[1]>> \o replaceAll(Tail(s), p, r)

\* [...new Set(xs)]: the first occurrence of each element, in order
RECURSIVE uniq(_)
uniq(xs) ==
    IF xs = <<>> THEN <<>>
    ELSE LET init == uniq(SubSeq(xs, 1, Len(xs) - 1))
             last == xs[Len(xs)]
         IN IF \E k \in 1..Len(init) : init[k] = last THEN init ELSE Append(init, last)

\* the elements of a sequence
Range(xs) == {xs[k] : k \in 1..Len(xs)}

-----------------------------------------------------------------------------
(* new RegExp(source).test(s), for the regular expressions a glob translates *)
(* to: literal characters, `.`, a character class `[...]` / `[^...]`, the    *)
(* quantifier `*`, and a `(` that nothing closes.                            *)

\* position of the first c in s, 0 when there is none
RECURSIVE indexOf(_, _)
indexOf(s, c) ==
    IF s = <<>> THEN 0
    ELSE IF Head(s) = c THEN 1
    ELSE LET k == indexOf(Tail(s), c) IN IF k = 0 THEN 0 ELSE k + 1

\* The RegExp constructor, reading the source left to right. ok = FALSE is the
\* SyntaxError it throws: an unterminated group, an unterminated character class,
\* or a quantifier with nothing to repeat.
RECURSIVE compileFrom(_, _)
compileFrom(src, toks) ==
    IF src = <<>> THEN [ok |-> TRUE, toks |-> toks]
    ELSE LET c == Head(src)
             rest == Tail(src)
         IN CASE c = "(" ->
                   \* "Unterminated group": PatternChars holds no `)` to close it
                   [ok |-> FALSE, toks |-> <<>>]
              [] c = "[" ->
                   LET close == indexOf(rest, "]")
                       body == SubSeq(rest, 1, close - 1)
                       neg == body # <<>> /\ Head(body) = "^"
                       members == IF neg THEN Tail(body) ELSE body
                   IN IF close = 0 THEN [ok |-> FALSE, toks |-> <<>>]
                      ELSE compileFrom(SubSeq(rest, close + 1, Len(rest)),
                               Append(toks, [kind |-> "class", neg |-> neg,
                                             set |-> Range(members), star |-> FALSE]))
              [] c = "*" ->
                   IF toks = <<>> \/ toks[Len(toks)].star THEN [ok |-> FALSE, toks |-> <<>>]
                   ELSE compileFrom(rest, [toks EXCEPT ![Len(toks)].star = TRUE])
              [] c = "." ->
                   compileFrom(rest, Append(toks, [kind |-> "any", neg |-> FALSE,
                                                   set |-> {}, star |-> FALSE]))
              [] OTHER ->
                   compileFrom(rest, Append(toks, [kind |-> "char", neg |-> FALSE,
                                                   set |-> {c}, star |-> FALSE]))

\* one token against one character
accepts(tok, ch) ==
    CASE tok.kind = "any" -> TRUE
      [] tok.kind = "class" -> (ch \in tok.set) # tok.neg
      [] OTHER -> ch \in tok.set

\* the tokens from k on match s from position p on (backtracking over `*`)
RECURSIVE matchAt(_, _, _, _)
matchAt(toks, k, s, p) ==
    IF k > Len(toks) THEN TRUE
    ELSE IF toks[k].star
         THEN \/ matchAt(toks, k + 1, s, p)
              \/ /\ p <= Len(s)
                 /\ accepts(toks[k], s[p])
                 /\ matchAt(toks, k, s, p + 1)
         ELSE /\ p <= Len(s)
              /\ accepts(toks[k], s[p])
              /\ matchAt(toks, k + 1, s, p + 1)

\* a test that only tries the first position, as a source starting with `^` would
regExpTest_FromStart(toks, s) == matchAt(toks, 1, s, 1)

\* RegExp.prototype.test: unanchored, a match may start anywhere
regExpTest(toks, s) == \E p \in 1..(Len(s) + 1) : matchAt(toks, 1, s, p)

\* matchesPattern: the three replacements in the code's order, each applied to the
\* output of the one before; threw = the RegExp constructor raised SyntaxError.
globToRegex(pattern) ==
    replaceAll(replaceAll(replaceAll(pattern, <<"*", "*">>, <<".", "*">>),
                          <<"*">>, <<"[", "^", "/", "]", "*">>),
               <<"?">>, <<".">>)

matchesPattern(filePath, pattern) ==
    LET re == compileFrom(globToRegex(pattern), <<>>)
    IN IF re.ok THEN [threw |-> FALSE, value |-> regExpTest(re.toks, filePath)]
       ELSE [threw |-> TRUE, value |-> FALSE]

-----------------------------------------------------------------------------
(* String literals of the code *)

GRAPHQL_SCHEMA == <<"g","r","a","p","h","q","l","-","s","c","h","e","m","a">>
SQS_VIA == <<"s","q","s">>
SHARED_TYPES == <<"s","h","a","r","e","d","-","t","y","p","e","s">>
API_CALL == <<"a","p","i","-","c","a","l","l">>
NPM_PACKAGE == <<"n","p","m","-","p","a","c","k","a","g","e">>

dotGraphql == <<".","g","r","a","p","h","q","l">>
dotGql == <<".","g","q","l">>
strQuery == <<"Q","u","e","r","y">>
strMutation == <<"M","u","t","a","t","i","o","n">>
strquery == <<"q","u","e","r","y">>
strmutation == <<"m","u","t","a","t","i","o","n">>
strapollo == <<"a","p","o","l","l","o">>
strgraphql == <<"g","r","a","p","h","q","l">>
strSQS == <<"S","Q","S">>
strsqs == <<"s","q","s">>
strtypes == <<"t","y","p","e","s">>
strinterfaces == <<"i","n","t","e","r","f","a","c","e","s">>
strmodels == <<"m","o","d","e","l","s">>
strType == <<"T","y","p","e">>
strInterface == <<"I","n","t","e","r","f","a","c","e">>
strStruct == <<"S","t","r","u","c","t">>
strAPI == <<"A","P","I">>
strHandler == <<"H","a","n","d","l","e","r">>
strController == <<"C","o","n","t","r","o","l","l","e","r">>
strEndpoint == <<"E","n","d","p","o","i","n","t">>
strcontroller == <<"c","o","n","t","r","o","l","l","e","r">>
strhandler == <<"h","a","n","d","l","e","r">>
strroutes == <<"r","o","u","t","e","s">>
strservice == <<"s","e","r","v","i","c","e">>
strapi == <<"a","p","i">>
strhttp == <<"h","t","t","p">>
strfetch == <<"f","e","t","c","h">>
strService == <<"S","e","r","v","i","c","e">>
strPackageJson == <<"p","a","c","k","a","g","e",".","j","s","o","n">>
strGoMod == <<"g","o",".","m","o","d">>
sep == <<":", ":">>

-----------------------------------------------------------------------------
(* The matchers. Each returns [threw, impacts]: threw = an exception left it. *)

\* Array.prototype.map(i => i.component)
components(impacts) == [k \in 1..Len(impacts) |-> impacts[k].component]

\* mutant of recordsFor: the loop stops after the first source impact
recordsFor_FirstOnly(sourceImpacts, sourceRepo, targetRepo, targetComponents, via) ==
    [k \in 1..1 |->
        [sourceRepo |-> sourceRepo.name,
         sourceComponent |-> sourceImpacts[k].component,
         targetRepo |-> targetRepo.name,
         targetComponents |-> targetComponents,
         relation |-> via]]

\* one raw record per source impact, all carrying targetComponents
recordsFor(sourceImpacts, sourceRepo, targetRepo, targetComponents, via) ==
    [k \in 1..Len(sourceImpacts) |->
        [sourceRepo |-> sourceRepo.name,
         sourceComponent |-> sourceImpacts[k].component,
         targetRepo |-> targetRepo.name,
         targetComponents |-> targetComponents,
         relation |-> via]]

\* the filter of analyzeGraphQLRelation
isSchemaImpact(i) ==
    \/ \E k \in 1..Len(i.reasons) : i.reasons[k].type = "schema"
    \/ endsWith(i.file, dotGraphql)
    \/ endsWith(i.file, dotGql)
    \/ includes(i.component, strQuery)
    \/ includes(i.component, strMutation)

\* the built-in test of findGraphQLConsumers
isGraphQLFile(file) ==
    \/ endsWith(file, dotGraphql)
    \/ endsWith(file, dotGql)
    \/ includes(file, strquery)
    \/ includes(file, strmutation)
    \/ includes(file, strapollo)
    \/ includes(file, strgraphql)

\* findGraphQLConsumers, the inner loop over patterns for one impact
RECURSIVE patternPushes(_, _)
patternPushes(impact, patterns) ==
    IF patterns = <<>> THEN [threw |-> FALSE, pushed |-> <<>>]
    ELSE LET m == matchesPattern(impact.file, Head(patterns))
             more == patternPushes(impact, Tail(patterns))
         IN IF m.threw \/ more.threw THEN [threw |-> TRUE, pushed |-> <<>>]
            ELSE [threw |-> FALSE,
                  pushed |-> (IF m.value THEN <<impact.component>> ELSE <<>>) \o more.pushed]

\* findGraphQLConsumers, the loop over the impacts: consumers before new Set
RECURSIVE consumerPushes(_, _)
consumerPushes(impacts, relation) ==
    IF impacts = <<>> THEN [threw |-> FALSE, pushed |-> <<>>]
    ELSE LET impact == Head(impacts)
             builtin == IF isGraphQLFile(impact.file) THEN <<impact.component>> ELSE <<>>
             byPattern == IF "patterns" \in DOMAIN relation
                          THEN patternPushes(impact, relation.patterns)
                          ELSE [threw |-> FALSE, pushed |-> <<>>]
             more == consumerPushes(Tail(impacts), relation)
         IN IF byPattern.threw \/ more.threw THEN [threw |-> TRUE, pushed |-> <<>>]
            ELSE [threw |-> FALSE, pushed |-> builtin \o byPattern.pushed \o more.pushed]

\* mutant of findGraphQLConsumers: patterns, when set, replace the built-in test
findGraphQLConsumers_PatternsReplace(repo, relation) ==
    IF "patterns" \in DOMAIN relation
    THEN LET hit(i) == \E k \in 1..Len(relation.patterns) :
                            matchesPattern(i.file, relation.patterns[k]).value
             bad == \E n \in 1..Len(repo.impacts), k \in 1..Len(relation.patterns) :
                        matchesPattern(repo.impacts[n].file, relation.patterns[k]).threw
         IN [threw |-> bad,
             value |-> uniq([n \in 1..Len(SelectSeq(repo.impacts, hit)) |->
                                SelectSeq(repo.impacts, hit)[n].component])]
    ELSE LET c == consumerPushes(repo.impacts, relation)
         IN [threw |-> c.threw, value |-> uniq(c.pushed)]

findGraphQLConsumers(repo, relation) ==
    LET c == consumerPushes(repo.impacts, relation)
    IN [threw |-> c.threw, value |-> uniq(c.pushed)]

analyzeGraphQLRelation(sourceRepo, targetRepo, relation) ==
    LET schemaImpacts == SelectSeq(sourceRepo.impacts, isSchemaImpact)
        found == findGraphQLConsumers(targetRepo, relation)
    IN IF Len(schemaImpacts) = 0 THEN [threw |-> FALSE, impacts |-> <<>>]
       ELSE IF found.threw THEN [threw |-> TRUE, impacts |-> <<>>]
       ELSE IF Len(found.value) > 0
            THEN [threw |-> FALSE,
                  impacts |-> recordsFor(schemaImpacts, sourceRepo, targetRepo,
                                         found.value, GRAPHQL_SCHEMA)]
            ELSE [threw |-> FALSE, impacts |-> <<>>]

\* the filter of analyzeSQSRelation and of findSQSComponents
isSQSImpact(i) ==
    \/ includes(i.component, strSQS)
    \/ \E k \in 1..Len(i.reasons) :
            includes(toLowerCase(i.reasons[k].description), strsqs)

findSQSComponents(repo) == components(SelectSeq(repo.impacts, isSQSImpact))

\* mutant of analyzeSQSRelation: the relation's patterns add targets, as they do
\* for graphql-schema
analyzeSQSRelation_ReadsPatterns(sourceRepo, targetRepo, relation) ==
    LET sqsImpacts == SelectSeq(sourceRepo.impacts, isSQSImpact)
        byPattern == consumerPushes(targetRepo.impacts, relation)
        targetComponents == findSQSComponents(targetRepo) \o byPattern.pushed
    IN IF Len(sqsImpacts) = 0 THEN [threw |-> FALSE, impacts |-> <<>>]
       ELSE IF byPattern.threw THEN [threw |-> TRUE, impacts |-> <<>>]
       ELSE IF Len(targetComponents) > 0
            THEN [threw |-> FALSE,
                  impacts |-> recordsFor(sqsImpacts, sourceRepo, targetRepo,
                                         targetComponents, SQS_VIA)]
            ELSE [threw |-> FALSE, impacts |-> <<>>]

\* mutant of analyzeSQSRelation: no test of targetComponents.length
analyzeSQSRelation_NoLengthTest(sourceRepo, targetRepo, relation) ==
    LET sqsImpacts == SelectSeq(sourceRepo.impacts, isSQSImpact)
    IN [threw |-> FALSE,
        impacts |-> [k \in 1..Len(sqsImpacts) |->
                        [sourceRepo |-> sourceRepo.name,
                         sourceComponent |-> sqsImpacts[k].component,
                         targetRepo |-> targetRepo.name,
                         targetComponents |-> findSQSComponents(targetRepo),
                         relation |-> SQS_VIA]]]

analyzeSQSRelation(sourceRepo, targetRepo, relation) ==
    LET sqsImpacts == SelectSeq(sourceRepo.impacts, isSQSImpact)
        targetComponents == findSQSComponents(targetRepo)
    IN IF Len(sqsImpacts) = 0 THEN [threw |-> FALSE, impacts |-> <<>>]
       ELSE IF Len(targetComponents) > 0
            THEN [threw |-> FALSE,
                  impacts |-> recordsFor(sqsImpacts, sourceRepo, targetRepo,
                                         targetComponents, SQS_VIA)]
            ELSE [threw |-> FALSE, impacts |-> <<>>]

\* the filter of analyzeSharedTypesRelation
isTypeImpact(i) ==
    \/ includes(i.file, strtypes)
    \/ includes(i.file, strinterfaces)
    \/ includes(i.file, strmodels)
    \/ includes(i.component, strType)
    \/ includes(i.component, strInterface)
    \/ includes(i.component, strStruct)

\* mutant of analyzeSharedTypesRelation: only type-related target impacts count
analyzeSharedTypesRelation_TypeTargets(sourceRepo, targetRepo, relation) ==
    LET typeImpacts == SelectSeq(sourceRepo.impacts, isTypeImpact)
        targets == SelectSeq(targetRepo.impacts, isTypeImpact)
        targetComponents == [k \in 1..Len(targets) |-> targets[k].component]
    IN IF Len(typeImpacts) = 0 \/ Len(targetComponents) = 0
       THEN [threw |-> FALSE, impacts |-> <<>>]
       ELSE [threw |-> FALSE,
             impacts |-> [k \in 1..Len(typeImpacts) |->
                            [sourceRepo |-> sourceRepo.name,
                             sourceComponent |-> typeImpacts[k].component,
                             targetRepo |-> targetRepo.name,
                             targetComponents |-> uniq(targetComponents),
                             relation |-> SHARED_TYPES]]]

analyzeSharedTypesRelation(sourceRepo, targetRepo, relation) ==
    LET typeImpacts == SelectSeq(sourceRepo.impacts, isTypeImpact)
        targetComponents == components(targetRepo.impacts)
    IN IF Len(typeImpacts) = 0 THEN [threw |-> FALSE, impacts |-> <<>>]
       ELSE IF Len(targetComponents) > 0
            THEN [threw |-> FALSE,
                  impacts |-> recordsFor(typeImpacts, sourceRepo, targetRepo,
                                         uniq(targetComponents), SHARED_TYPES)]
            ELSE [threw |-> FALSE, impacts |-> <<>>]

\* the source filter of analyzeAPICallRelation
isAPIImpact(i) ==
    \/ includes(i.component, strAPI)
    \/ includes(i.component, strHandler)
    \/ includes(i.component, strController)
    \/ includes(i.component, strEndpoint)
    \/ includes(i.file, strcontroller)
    \/ includes(i.file, strhandler)
    \/ includes(i.file, strroutes)

\* the target filter of analyzeAPICallRelation
isAPIClient(i) ==
    \/ includes(i.file, strservice)
    \/ includes(i.file, strapi)
    \/ includes(i.file, strhttp)
    \/ includes(i.file, strfetch)
    \/ includes(i.component, strService)

analyzeAPICallRelation(sourceRepo, targetRepo, relation) ==
    LET apiImpacts == SelectSeq(sourceRepo.impacts, isAPIImpact)
        targetComponents == components(SelectSeq(targetRepo.impacts, isAPIClient))
    IN IF Len(apiImpacts) = 0 THEN [threw |-> FALSE, impacts |-> <<>>]
       ELSE IF Len(targetComponents) > 0
            THEN [threw |-> FALSE,
                  impacts |-> recordsFor(apiImpacts, sourceRepo, targetRepo,
                                         uniq(targetComponents), API_CALL)]
            ELSE [threw |-> FALSE, impacts |-> <<>>]

\* the filter of analyzeNpmPackageRelation
isDepImpact(i) ==
    \/ \E k \in 1..Len(i.reasons) : i.reasons[k].type = "dependency"
    \/ includes(i.file, strPackageJson)
    \/ endsWith(i.file, strGoMod)

analyzeNpmPackageRelation(sourceRepo, targetRepo, relation) ==
    LET depImpacts == SelectSeq(sourceRepo.impacts, isDepImpact)
        targetComponents == components(targetRepo.impacts)
    IN IF Len(depImpacts) = 0 THEN [threw |-> FALSE, impacts |-> <<>>]
       ELSE IF Len(targetComponents) > 0
            THEN [threw |-> FALSE,
                  impacts |-> recordsFor(depImpacts, sourceRepo, targetRepo,
                                         uniq(targetComponents), NPM_PACKAGE)]
            ELSE [threw |-> FALSE, impacts |-> <<>>]

\* Array.prototype.find(r => r.name === name): index of the first entry, 0 = undefined
findRepo(repos, name) ==
    IF \E k \in 1..Len(repos) : repos[k].name = name
    THEN CHOOSE k \in 1..Len(repos) :
            /\ repos[k].name = name
            /\ \A j \in 1..(k - 1) : repos[j].name # name
    ELSE 0

\* mutant of analyzeRelation: no test of the two lookups, so reading .impacts of
\* an undefined repository raises TypeError
analyzeRelation_NoPresenceTest(repos, relation) ==
    LET s == findRepo(repos, relation.from)
        t == findRepo(repos, relation.to)
    IN IF s = 0 \/ t = 0 THEN [threw |-> TRUE, impacts |-> <<>>]
       ELSE CASE relation.via = GRAPHQL_SCHEMA ->
                    analyzeGraphQLRelation(repos[s], repos[t], relation)
              [] relation.via = SQS_VIA ->
                    analyzeSQSRelation(repos[s], repos[t], relation)
              [] relation.via = SHARED_TYPES ->
                    analyzeSharedTypesRelation(repos[s], repos[t], relation)
              [] relation.via = API_CALL ->
                    analyzeAPICallRelation(repos[s], repos[t], relation)
              [] relation.via = NPM_PACKAGE ->
                    analyzeNpmPackageRelation(repos[s], repos[t], relation)
              [] OTHER -> [threw |-> FALSE, impacts |-> <<>>]

\* mutant of analyzeRelation: the switch has no default and a via it does not
\* know runs the last case
analyzeRelation_DefaultLastCase(repos, relation) ==
    LET s == findRepo(repos, relation.from)
        t == findRepo(repos, relation.to)
    IN IF s = 0 \/ t = 0 THEN [threw |-> FALSE, impacts |-> <<>>]
       ELSE CASE relation.via = GRAPHQL_SCHEMA ->
                    analyzeGraphQLRelation(repos[s], repos[t], relation)
              [] relation.via = SQS_VIA ->
                    analyzeSQSRelation(repos[s], repos[t], relation)
              [] relation.via = SHARED_TYPES ->
                    analyzeSharedTypesRelation(repos[s], repos[t], relation)
              [] relation.via = API_CALL ->
                    analyzeAPICallRelation(repos[s], repos[t], relation)
              [] OTHER ->
                    analyzeNpmPackageRelation(repos[s], repos[t], relation)

analyzeRelation(repos, relation) ==
    LET s == findRepo(repos, relation.from)
        t == findRepo(repos, relation.to)
    IN IF s = 0 \/ t = 0 THEN [threw |-> FALSE, impacts |-> <<>>]
       ELSE CASE relation.via = GRAPHQL_SCHEMA ->
                    analyzeGraphQLRelation(repos[s], repos[t], relation)
              [] relation.via = SQS_VIA ->
                    analyzeSQSRelation(repos[s], repos[t], relation)
              [] relation.via = SHARED_TYPES ->
                    analyzeSharedTypesRelation(repos[s], repos[t], relation)
              [] relation.via = API_CALL ->
                    analyzeAPICallRelation(repos[s], repos[t], relation)
              [] relation.via = NPM_PACKAGE ->
                    analyzeNpmPackageRelation(repos[s], repos[t], relation)
              [] OTHER -> [threw |-> FALSE, impacts |-> <<>>]

-----------------------------------------------------------------------------
(* deduplicateCrossImpacts *)

\* the template literal that builds the Map key
keyOf(impact) ==
    impact.sourceRepo \o sep \o impact.sourceComponent \o sep
        \o impact.targetRepo \o sep \o impact.relation

\* Map.prototype.get: index of the entry with this key, 0 = undefined
mapGet(m, key) ==
    IF \E k \in 1..Len(m) : m[k].key = key
    THEN CHOOSE k \in 1..Len(m) : m[k].key = key
    ELSE 0

\* mutant of dedupStep: a new key is entered before the entries the map holds,
\* so the values come out in the reverse of the order of first appearance
dedupStep_Prepends(m, impact) ==
    LET key == keyOf(impact)
        e == mapGet(m, key)
    IN IF e # 0
       THEN [m EXCEPT ![e].value.targetComponents =
                uniq(m[e].value.targetComponents \o impact.targetComponents)]
       ELSE <<[key |-> key, value |-> impact]>> \o m

\* mutant of dedupStep: a merge deletes the entry and sets it again, which moves
\* it behind the entries entered after it
dedupStep_MovesMerged(m, impact) ==
    LET key == keyOf(impact)
        e == mapGet(m, key)
    IN IF e # 0
       THEN Append(SubSeq(m, 1, e - 1) \o SubSeq(m, e + 1, Len(m)),
                   [m[e] EXCEPT !.value.targetComponents =
                        uniq(m[e].value.targetComponents \o impact.targetComponents)])
       ELSE Append(m, [key |-> key, value |-> impact])

\* one iteration of the loop of deduplicateCrossImpacts
dedupStep(m, impact) ==
    LET key == keyOf(impact)
        e == mapGet(m, key)
    IN IF e # 0
       THEN [m EXCEPT ![e].value.targetComponents =
                uniq(m[e].value.targetComponents \o impact.targetComponents)]
       ELSE Append(m, [key |-> key, value |-> impact])

\* Array.from(map.values())
mapValues(m) == [k \in 1..Len(m) |-> m[k].value]

\* the whole pass, as the loop computes it
RECURSIVE dedupFrom(_, _)
dedupFrom(m, impacts) ==
    IF impacts = <<>> THEN m
    ELSE dedupFrom(dedupStep(m, Head(impacts)), Tail(impacts))

deduplicateCrossImpacts(impacts) == mapValues(dedupFrom(<<>>, impacts))

\* analyze(): the loop over the relations, an exception of analyzeRelation leaving
\* it, then the merge of the raw records
RECURSIVE analyzeLoop(_, _)
analyzeLoop(repos, rels) ==
    IF rels = <<>> THEN [threw |-> FALSE, impacts |-> <<>>]
    ELSE LET r == analyzeRelation(repos, Head(rels))
         IN IF r.threw THEN [threw |-> TRUE, impacts |-> <<>>]
            ELSE LET more == analyzeLoop(repos, Tail(rels))
                 IN IF more.threw THEN [threw |-> TRUE, impacts |-> <<>>]
                    ELSE [threw |-> FALSE, impacts |-> r.impacts \o more.impacts]

analyze(repos, rels) ==
    LET raw == analyzeLoop(repos, rels)
    IN IF raw.threw THEN [threw |-> TRUE, value |-> <<>>]
       ELSE [threw |-> FALSE, value |-> deduplicateCrossImpacts(raw.impacts)]

-----------------------------------------------------------------------------
(* Which array object each targetComponents is *)

\* analyzeGraphQLRelation and analyzeSQSRelation write `targetComponents,`: every
\* record of the call holds the one array the finder returned. The three other
\* matchers write `targetComponents: [...new Set(targetComponents)]`.
sharesTargetList(via) == via = GRAPHQL_SCHEMA \/ via = SQS_VIA

\* the identities of the targetComponents of the n records one matcher call
\* pushes: next is the array the matcher computes once, next + j the copy made
\* for record j
emittedRefs(via, n, next) ==
    [j \in 1..n |-> IF sharesTargetList(via) THEN next ELSE next + j]

\* mutant of dedupRefs: the first record of a key is entered as `{ ...impact }`,
\* which keeps the array of the raw record
dedupRefs_ShallowCopy(m, refs, impact, ref, next) ==
    LET e == mapGet(m, keyOf(impact))
    IN IF e # 0 THEN [refs EXCEPT ![e] = next] ELSE Append(refs, ref)

\* one iteration of the loop of deduplicateCrossImpacts, the arrays: a merge
\* assigns a new array `[...allTargets]` to the entry, a new key is entered with
\* a copy `[...impact.targetComponents]`; ref is the array of the raw record
dedupRefs(m, refs, impact, ref, next) ==
    LET e == mapGet(m, keyOf(impact))
    IN IF e # 0 THEN [refs EXCEPT ![e] = next] ELSE Append(refs, next)

-----------------------------------------------------------------------------
(* Inputs *)

MaxImpacts == 2     \* impacts per repository
MaxRelations == 2   \* declared relations

\* repository names
nApi == <<"a","p","i">>
nJobs == <<"a","p","i",":",":","j","o","b","s">>
nWeb == <<"w","e","b">>

\* component names
cQuery == <<"Q","u","e","r","y",":"," ","g","e","t">>
cJobsWorker == <<"j","o","b","s",":",":","S","Q","S","W","o","r","k","e","r">>
cWorker == <<"S","Q","S","W","o","r","k","e","r">>
cUserType == <<"U","s","e","r","T","y","p","e">>
cDeps == <<"D","e","p","e","n","d","e","n","c","i","e","s">>

\* file paths
fSchema == <<"s","c","h","e","m","a",".","g","r","a","p","h","q","l">>
fHandlerGo == <<"j","o","b","s","/","h","a","n","d","l","e","r",".","g","o">>
fRetryGo == <<"j","o","b","s","/","r","e","t","r","y",".","g","o">>
fApiTs == <<"s","r","c","/","a","p","i",".","t","s">>
fPackageJson == <<"p","a","c","k","a","g","e",".","j","s","o","n">>

\* reasons
rSchema == [type |-> "schema", source |-> fSchema,
            description |-> <<"S","c","h","e","m","a"," ","m","o","d","i","f","i","e","d">>]
rDirect == [type |-> "direct", source |-> fHandlerGo,
            description |-> <<"M","o","d","i","f","i","e","d">>]
rCallsSQS == [type |-> "direct", source |-> fApiTs,
              description |-> <<"C","a","l","l","s"," ","S","Q","S">>]
rDependency == [type |-> "dependency", source |-> fPackageJson,
                description |-> <<"D","e","p","s"," ","c","h","a","n","g","e","d">>]

\* ImpactItems the local analyzers may hand over (repo and line are not read by
\* the correlator); no two share (component, file)
ItemPool ==
    << [component |-> cQuery, file |-> fSchema, reasons |-> <<rSchema>>],
       [component |-> cJobsWorker, file |-> fHandlerGo, reasons |-> <<rDirect>>],
       [component |-> cJobsWorker, file |-> fRetryGo, reasons |-> <<rDirect>>],
       [component |-> cUserType, file |-> fApiTs,
        reasons |-> <<rCallsSQS, rDependency>>] >>

\* the impacts of the repository api::jobs, when it has any
JobsImpacts == << [component |-> cWorker, file |-> fHandlerGo, reasons |-> <<rDirect>>] >>

\* the elements of pool at the indices I, in pool order
RECURSIVE pick(_, _)
pick(pool, I) ==
    IF I = {} THEN <<>>
    ELSE LET k == CHOOSE x \in I : \A y \in I : x <= y
         IN <<pool[k]>> \o pick(pool, I \ {k})

\* the lists of at most n elements of pool, in pool order
Selections(pool, n) ==
    {pick(pool, I) : I \in {J \in SUBSET (1..Len(pool)) : Cardinality(J) <= n}}

ImpactLists == Selections(ItemPool, MaxImpacts)

\* glob patterns
pTs == <<"*","*","/","*",".","t","s">>
pParen == <<"s","r","c","/","(","*">>

\* the characters the patterns are written in
PatternChars == Range(pTs) \cup Range(pParen) \cup {"?", "["}

KnownVias == <<GRAPHQL_SCHEMA, SQS_VIA, SHARED_TYPES, API_CALL, NPM_PACKAGE>>

RelationPool ==
    [k \in 1..Len(KnownVias) |-> [from |-> nApi, to |-> nWeb, via |-> KnownVias[k]]]
    \o << [from |-> nApi, to |-> nWeb, via |-> GRAPHQL_SCHEMA, patterns |-> <<pTs>>],
          [from |-> nApi, to |-> nWeb, via |-> GRAPHQL_SCHEMA, patterns |-> <<pTs, pParen>>],
          [from |-> nJobs, to |-> nWeb, via |-> SQS_VIA] >>

RelationLists == Selections(RelationPool, MaxRelations)

\* the RepoImpacts lists: each repository present or absent
RepoImpactsLists ==
    {a \o j \o w :
        a \in {<<>>} \cup {<<[name |-> nApi, impacts |-> l]>> : l \in ImpactLists},
        j \in {<<>>, <<[name |-> nJobs, impacts |-> JobsImpacts]>>},
        w \in {<<>>} \cup {<<[name |-> nWeb, impacts |-> l]>> : l \in ImpactLists}}

-----------------------------------------------------------------------------
(* analyze() *)

Init ==
    /\ relations \in RelationLists
    /\ repoImpacts \in RepoImpactsLists
    /\ pc = "loop"
    /\ ri = 1
    /\ crossImpacts = <<>>
    /\ emitted = <<>>
    /\ di = 1
    /\ map = <<>>
    /\ result = <<>>
    /\ nextRef = Len(relations) + 1
    /\ rawRefs = <<>>
    /\ mapRefs = <<>>
    /\ resultRefs = <<>>
    /\ calls = 1
    /\ returned = <<>>
    /\ GlobIdle
    /\ BaseIdle
    /\ PipeIdle
    /\ ReportIdle
    /\ DiffIdle

\* one iteration of `for (const relation of this.relations)`; an exception of
\* analyzeRelation leaves analyze(). The arrays the matcher creates take the
\* identities from nextRef on.
AnalyzeOne ==
    /\ pc = "loop"
    /\ ri <= Len(relations)
    /\ LET r == analyzeRelation(repoImpacts, relations[ri])
       IN IF r.threw
          THEN /\ pc' = "threw"
               /\ UNCHANGED <<ri, crossImpacts, emitted, rawRefs, nextRef>>
          ELSE /\ crossImpacts' = crossImpacts \o r.impacts
               /\ emitted' = Append(emitted, r.impacts)
               /\ rawRefs' = rawRefs
                       \o emittedRefs(relations[ri].via, Len(r.impacts), nextRef)
               /\ nextRef' = nextRef + Len(r.impacts) + 1
               /\ ri' = ri + 1
               /\ pc' = pc
    /\ UNCHANGED <<relations, repoImpacts, di, map, result, mapRefs, resultRefs,
                   calls, returned>>
    /\ UNCHANGED <<globVars, baseVars, pipeVars, reportVars, diffVars>>

\* the loop is over: deduplicateCrossImpacts(crossImpacts) is entered
EnterDedup ==
    /\ pc = "loop"
    /\ ri > Len(relations)
    /\ pc' = "dedup"
    /\ di' = 1
    /\ map' = <<>>
    /\ mapRefs' = <<>>
    /\ UNCHANGED <<relations, repoImpacts, ri, crossImpacts, emitted, result,
                   nextRef, rawRefs, resultRefs, calls, returned>>
    /\ UNCHANGED <<globVars, baseVars, pipeVars, reportVars, diffVars>>

\* one iteration of `for (const impact of impacts)`
DedupOne ==
    /\ pc = "dedup"
    /\ di <= Len(crossImpacts)
    /\ map' = dedupStep(map, crossImpacts[di])
    /\ mapRefs' = dedupRefs(map, mapRefs, crossImpacts[di], rawRefs[di], nextRef)
    /\ nextRef' = nextRef + 1
    /\ di' = di + 1
    /\ UNCHANGED <<relations, repoImpacts, pc, ri, crossImpacts, emitted, result,
                   rawRefs, resultRefs, calls, returned>>
    /\ UNCHANGED <<globVars, baseVars, pipeVars, reportVars, diffVars>>

\* return Array.from(map.values()): the record objects of the map, and so their
\* arrays, are what the caller gets
Return ==
    /\ pc = "dedup"
    /\ di > Len(crossImpacts)
    /\ result' = mapValues(map)
    /\ resultRefs' = mapRefs
    /\ returned' = Append(returned, mapValues(map))
    /\ pc' = "done"
    /\ UNCHANGED <<relations, repoImpacts, ri, crossImpacts, emitted, di, map,
                   nextRef, rawRefs, mapRefs, calls>>
    /\ UNCHANGED <<globVars, baseVars, pipeVars, reportVars, diffVars>>

Next == AnalyzeOne \/ EnterDedup \/ DedupOne \/ Return

Spec == Init /\ [][Next]_vars

-----------------------------------------------------------------------------
(* The deduplication pass on its own: any list of CrossRepoImpact records *)

MaxRecords == 3     \* records handed to deduplicateCrossImpacts

\* the sequences over S of length at most n
SeqsUpTo(S, n) == UNION {[1..k -> S] : k \in 0..n}

RecordPool ==
    {[sourceRepo |-> sr, sourceComponent |-> sc, targetRepo |-> nWeb,
      targetComponents |-> tc, relation |-> SQS_VIA] :
        sr \in {nApi, nJobs},
        sc \in {cJobsWorker, cWorker},
        tc \in {<<>>, <<cQuery>>, <<cQuery, cQuery>>, <<cQuery, cUserType>>,
                <<cUserType, cDeps>>}}

InitDedup ==
    /\ relations = <<>>
    /\ repoImpacts = <<>>
    /\ pc = "dedup"
    /\ ri = 1
    /\ crossImpacts \in SeqsUpTo(RecordPool, MaxRecords)
    /\ emitted = <<>>
    /\ di = 1
    /\ map = <<>>
    /\ result = <<>>
    /\ nextRef = Len(crossImpacts) + 1
    /\ rawRefs = [k \in 1..Len(crossImpacts) |-> k]
    /\ mapRefs = <<>>
    /\ resultRefs = <<>>
    /\ calls = 1
    /\ returned = <<>>
    /\ GlobIdle
    /\ BaseIdle
    /\ PipeIdle
    /\ ReportIdle
    /\ DiffIdle

NextDedup == DedupOne \/ Return

SpecDedup == InitDedup /\ [][NextDedup]_vars

-----------------------------------------------------------------------------
(* One relation over source impacts at the edges of the trigger predicates *)

fPackageJsonBak == fPackageJson \o <<".","b","a","k">>
fGoMod == <<"g","o",".","m","o","d">>
fGoModBak == fGoMod \o <<".","b","a","k">>
cBackup == <<"B","a","c","k","u","p">>

EdgeItemPool ==
    << [component |-> cDeps, file |-> fPackageJson, reasons |-> <<rDependency>>],
       [component |-> cBackup, file |-> fPackageJsonBak, reasons |-> <<rDirect>>],
       [component |-> cDeps, file |-> fGoMod, reasons |-> <<rDirect>>],
       [component |-> cBackup, file |-> fGoModBak, reasons |-> <<rDirect>>] >>

InitTriggers ==
    /\ relations \in {<<[from |-> nApi, to |-> nWeb, via |-> KnownVias[k]]>> :
                        k \in 1..Len(KnownVias)}
    /\ repoImpacts \in
          {<<[name |-> nApi, impacts |-> a], [name |-> nWeb, impacts |-> w]>> :
              a \in Selections(EdgeItemPool, MaxImpacts),
              w \in Selections(ItemPool, 1)}
    /\ pc = "loop"
    /\ ri = 1
    /\ crossImpacts = <<>>
    /\ emitted = <<>>
    /\ di = 1
    /\ map = <<>>
    /\ result = <<>>
    /\ nextRef = Len(relations) + 1
    /\ rawRefs = <<>>
    /\ mapRefs = <<>>
    /\ resultRefs = <<>>
    /\ calls = 1
    /\ returned = <<>>
    /\ GlobIdle
    /\ BaseIdle
    /\ PipeIdle
    /\ ReportIdle
    /\ DiffIdle

SpecTriggers == InitTriggers /\ [][Next]_vars

-----------------------------------------------------------------------------
(* matchesPattern on its own: one call on a glob and a path *)

MaxDirs == 2        \* directory segments between the first segment and the file name

\* no analyze() is followed
CrossIdle ==
    /\ relations = <<>>
    /\ repoImpacts = <<>>
    /\ pc = "idle"
    /\ ri = 1
    /\ crossImpacts = <<>>
    /\ emitted = <<>>
    /\ di = 1
    /\ map = <<>>
    /\ result = <<>>
    /\ nextRef = 1
    /\ rawRefs = <<>>
    /\ mapRefs = <<>>
    /\ resultRefs = <<>>
    /\ calls = 0
    /\ returned = <<>>

dSrc == <<"s","r","c">>
dA == <<"a">>
dB == <<"b">>
fXTs == <<"x",".","t","s">>
fY == <<"y">>

\* the segments joined by the path separator
RECURSIVE joinPath(_)
joinPath(segs) ==
    IF segs = <<>> THEN <<>>
    ELSE IF Len(segs) = 1 THEN segs[1]
    ELSE segs[1] \o <<"/">> \o joinPath(Tail(segs))

GlobPrefixes == {dSrc, dA}

GlobNames == {fXTs, fY}

DirSeqs == SeqsUpTo({dA, dB}, MaxDirs)

\* the glob P/**/S
DoubleStar(P, S) == P \o <<"/","*","*","/">> \o S

pStarTs == <<"*",".","t","s">>
pQTs == <<"?",".","t","s">>

GlobPatterns ==
    {DoubleStar(P, S) : P \in GlobPrefixes, S \in GlobNames}
        \cup {pStarTs, pTs, pQTs, pParen}

GlobPaths ==
    {joinPath(<<P>> \o ds \o <<S>>) : P \in GlobPrefixes, ds \in DirSeqs, S \in GlobNames}
        \cup {joinPath(ds \o <<S>>) : ds \in DirSeqs, S \in GlobNames}

InitGlob ==
    /\ CrossIdle
    /\ BaseIdle
    /\ PipeIdle
    /\ ReportIdle
    /\ DiffIdle
    /\ gPattern \in GlobPatterns
    /\ gPath \in GlobPaths
    /\ gPc = "call"
    /\ gResult = FALSE

\* matchesPattern(filePath, pattern): returns the test's verdict, or the
\* SyntaxError of new RegExp leaves it
MatchesPattern ==
    /\ gPc = "call"
    /\ LET r == matchesPattern(gPath, gPattern)
       IN /\ gPc' = IF r.threw THEN "threw" ELSE "done"
          /\ gResult' = r.value
    /\ UNCHANGED <<gPattern, gPath>>
    /\ UNCHANGED <<crossVars, baseVars, pipeVars, reportVars, diffVars>>

NextGlob == MatchesPattern

SpecGlob == InitGlob /\ [][NextGlob]_vars

-----------------------------------------------------------------------------
(* Relations whose via is none of the five kinds *)

UNKNOWN_VIA == <<"w","e","b","h","o","o","k">>

UnknownViaPool ==
    << [from |-> nApi, to |-> nWeb, via |-> UNKNOWN_VIA],
       [from |-> nApi, to |-> nWeb, via |-> SQS_VIA],
       [from |-> nApi, to |-> nWeb, via |-> NPM_PACKAGE],
       [from |-> nApi, to |-> nWeb, via |-> GRAPHQL_SCHEMA, patterns |-> <<pTs, pParen>>] >>

InitUnknownVia ==
    /\ relations \in Selections(UnknownViaPool, MaxRelations)
    /\ repoImpacts \in
          {<<[name |-> nApi, impacts |-> a], [name |-> nWeb, impacts |-> w]>> :
              a \in ImpactLists, w \in ImpactLists}
    /\ pc = "loop"
    /\ ri = 1
    /\ crossImpacts = <<>>
    /\ emitted = <<>>
    /\ di = 1
    /\ map = <<>>
    /\ result = <<>>
    /\ nextRef = Len(relations) + 1
    /\ rawRefs = <<>>
    /\ mapRefs = <<>>
    /\ resultRefs = <<>>
    /\ calls = 1
    /\ returned = <<>>
    /\ GlobIdle
    /\ BaseIdle
    /\ PipeIdle
    /\ ReportIdle
    /\ DiffIdle

SpecUnknownVia == InitUnknownVia /\ [][Next]_vars

-----------------------------------------------------------------------------
(* Target repositories whose names meet the separator of the key *)

nJobsOnly == <<"j","o","b","s">>
cWorkerApi == cWorker \o <<":",":","a","p","i">>

\* the impacts of web: SQSWorker and SQSWorker::api
SeparatorItems ==
    << [component |-> cWorker, file |-> fHandlerGo, reasons |-> <<rDirect>>],
       [component |-> cWorkerApi, file |-> fRetryGo, reasons |-> <<rDirect>>] >>

SeparatorPool ==
    << [from |-> nWeb, to |-> nJobs, via |-> SQS_VIA],
       [from |-> nWeb, to |-> nJobsOnly, via |-> SQS_VIA],
       [from |-> nWeb, to |-> nJobsOnly, via |-> NPM_PACKAGE] >>

InitSeparator ==
    /\ relations \in Selections(SeparatorPool, MaxRelations)
    /\ repoImpacts \in
          {<<[name |-> nWeb, impacts |-> w]>> \o j \o o :
              w \in Selections(SeparatorItems, MaxImpacts),
              j \in {<<>>, <<[name |-> nJobs, impacts |-> JobsImpacts]>>},
              o \in {<<>>} \cup
                    {<<[name |-> nJobsOnly, impacts |-> l]>> :
                        l \in Selections(SubSeq(ItemPool, 2, 2), MaxImpacts)}}
    /\ pc = "loop"
    /\ ri = 1
    /\ crossImpacts = <<>>
    /\ emitted = <<>>
    /\ di = 1
    /\ map = <<>>
    /\ result = <<>>
    /\ nextRef = Len(relations) + 1
    /\ rawRefs = <<>>
    /\ mapRefs = <<>>
    /\ resultRefs = <<>>
    /\ calls = 1
    /\ returned = <<>>
    /\ GlobIdle
    /\ BaseIdle
    /\ PipeIdle
    /\ ReportIdle
    /\ DiffIdle

SpecSeparator == InitSeparator /\ [][Next]_vars

-----------------------------------------------------------------------------
(* Relations of every kind that carry patterns *)

PatternsPool ==
    << [from |-> nApi, to |-> nWeb, via |-> SQS_VIA, patterns |-> <<pTs>>],
       [from |-> nApi, to |-> nWeb, via |-> SQS_VIA, patterns |-> <<pParen>>],
       [from |-> nApi, to |-> nWeb, via |-> SHARED_TYPES, patterns |-> <<pTs>>],
       [from |-> nApi, to |-> nWeb, via |-> API_CALL, patterns |-> <<pParen>>],
       [from |-> nApi, to |-> nWeb, via |-> NPM_PACKAGE, patterns |-> <<pTs, pParen>>],
       [from |-> nApi, to |-> nWeb, via |-> GRAPHQL_SCHEMA, patterns |-> <<pTs>>] >>

\* the impacts of web: those of ItemPool and one whose file the glob **/*.ts
\* matches and which no built-in test makes a consumer
PatternItems ==
    Append(ItemPool, [component |-> cDeps, file |-> fApiTs, reasons |-> <<rDirect>>])

InitPatterns ==
    /\ relations \in Selections(PatternsPool, MaxRelations)
    /\ repoImpacts \in
          {<<[name |-> nApi, impacts |-> a], [name |-> nWeb, impacts |-> w]>> :
              a \in ImpactLists, w \in Selections(PatternItems, MaxImpacts)}
    /\ pc = "loop"
    /\ ri = 1
    /\ crossImpacts = <<>>
    /\ emitted = <<>>
    /\ di = 1
    /\ map = <<>>
    /\ result = <<>>
    /\ nextRef = Len(relations) + 1
    /\ rawRefs = <<>>
    /\ mapRefs = <<>>
    /\ resultRefs = <<>>
    /\ calls = 1
    /\ returned = <<>>
    /\ GlobIdle
    /\ BaseIdle
    /\ PipeIdle
    /\ ReportIdle
    /\ DiffIdle

SpecPatterns == InitPatterns /\ [][Next]_vars

-----------------------------------------------------------------------------
(* Several calls of analyze() on one instance *)

MaxCalls == 2       \* calls of analyze() on the instance

RunsPool ==
    << [from |-> nApi, to |-> nWeb, via |-> SQS_VIA],
       [from |-> nApi, to |-> nWeb, via |-> SHARED_TYPES],
       [from |-> nApi, to |-> nWeb, via |-> GRAPHQL_SCHEMA, patterns |-> <<pTs>>] >>

InitRuns ==
    /\ relations \in Selections(RunsPool, MaxRelations)
    /\ repoImpacts \in
          {<<[name |-> nApi, impacts |-> a], [name |-> nWeb, impacts |-> w]>> :
              a \in ImpactLists, w \in ImpactLists}
    /\ pc = "loop"
    /\ ri = 1
    /\ crossImpacts = <<>>
    /\ emitted = <<>>
    /\ di = 1
    /\ map = <<>>
    /\ result = <<>>
    /\ nextRef = Len(relations) + 1
    /\ rawRefs = <<>>
    /\ mapRefs = <<>>
    /\ resultRefs = <<>>
    /\ calls = 1
    /\ returned = <<>>
    /\ GlobIdle
    /\ BaseIdle
    /\ PipeIdle
    /\ ReportIdle
    /\ DiffIdle

\* mutant of CallAgain: crossImpacts is kept from the call before, as a field
\* of the instance would be
CallAgain_KeepsRawRecords ==
    /\ pc = "done"
    /\ calls < MaxCalls
    /\ pc' = "loop"
    /\ ri' = 1
    /\ emitted' = <<>>
    /\ calls' = calls + 1
    /\ UNCHANGED <<relations, repoImpacts, crossImpacts, rawRefs, di, map, result,
                   nextRef, mapRefs, resultRefs, returned>>
    /\ UNCHANGED <<globVars, baseVars, pipeVars, reportVars, diffVars>>

\* analyze() is called again on the instance: the fields relations and
\* repoImpacts are what they were, `const crossImpacts = []` is a new local
CallAgain ==
    /\ pc = "done"
    /\ calls < MaxCalls
    /\ pc' = "loop"
    /\ ri' = 1
    /\ crossImpacts' = <<>>
    /\ rawRefs' = <<>>
    /\ emitted' = <<>>
    /\ calls' = calls + 1
    /\ UNCHANGED <<relations, repoImpacts, di, map, result, nextRef, mapRefs,
                   resultRefs, returned>>
    /\ UNCHANGED <<globVars, baseVars, pipeVars, reportVars, diffVars>>

NextRuns == Next \/ CallAgain

SpecRuns == InitRuns /\ [][NextRuns]_vars

-----------------------------------------------------------------------------
(* BaseAnalyzer.deduplicateImpacts (src/src/analyzers/base.ts) *)

MaxItems == 2       \* ImpactItems handed to deduplicateImpacts

\* Reason.type as the template literal writes it
typeChars(t) ==
    CASE t = "direct" -> <<"d","i","r","e","c","t">>
      [] t = "dependency" -> <<"d","e","p","e","n","d","e","n","c","y">>
      [] t = "schema" -> <<"s","c","h","e","m","a">>
      [] t = "style" -> <<"s","t","y","l","e">>
      [] t = "config" -> <<"c","o","n","f","i","g">>

\* `${r.type}::${r.source}`
reasonKey(r) == typeChars(r.type) \o sep \o r.source

\* `${impact.component}::${impact.file}`
impactKey(impact) == impact.component \o sep \o impact.file

\* the reasons the merge loop pushes: existingReasons is built once, before the
\* loop over impact.reasons
pushedReasons(existing, impact) ==
    LET existingReasons == {reasonKey(existing.reasons[k]) : k \in 1..Len(existing.reasons)}
        missing(r) == reasonKey(r) \notin existingReasons
    IN SelectSeq(impact.reasons, missing)

\* mutant of baseDedupStep: a later item with a key the map holds is dropped,
\* its reasons are not merged
baseDedupStep_DropsLater(m, impact, idx) ==
    LET key == impactKey(impact)
        e == mapGet(m, key)
    IN IF e # 0 THEN m
       ELSE Append(m, [key |-> key, value |-> impact, src |-> idx])

\* one iteration of the loop of deduplicateImpacts; idx is the position of impact
\* in the argument. `{ ...impact }` copies the fields, so the entry's reasons is
\* the array of the argument's item idx (src).
baseDedupStep(m, impact, idx) ==
    LET key == impactKey(impact)
        e == mapGet(m, key)
    IN IF e # 0
       THEN [m EXCEPT ![e].value.reasons = @ \o pushedReasons(m[e].value, impact)]
       ELSE Append(m, [key |-> key, value |-> impact, src |-> idx])

\* the argument's items after the iteration: a push to an entry's reasons is a
\* push to the array of the item the entry was copied from
sharedBack(impacts, m) ==
    [k \in 1..Len(impacts) |->
        IF \E e \in 1..Len(m) : m[e].src = k
        THEN [impacts[k] EXCEPT !.reasons =
                m[CHOOSE e \in 1..Len(m) : m[e].src = k].value.reasons]
        ELSE impacts[k]]

\* the whole pass, as the loop computes it
RECURSIVE baseDedupFrom(_, _, _)
baseDedupFrom(m, impacts, idx) ==
    IF idx > Len(impacts) THEN m
    ELSE LET m2 == baseDedupStep(m, impacts[idx], idx)
         IN baseDedupFrom(m2, sharedBack(impacts, m2), idx + 1)

deduplicateImpacts(impacts) == mapValues(baseDedupFrom(<<>>, impacts, 1))

cSvc == <<"S">>
cSvcB == <<"S",":",":","b">>
fC == <<"c">>
fBC == <<"b",":",":","c">>
sGit == <<"g">>

rbDirect == [type |-> "direct", source |-> sGit, description |-> <<"x">>]
rbDirect2 == [type |-> "direct", source |-> sGit, description |-> <<"y">>]
rbDep == [type |-> "dependency", source |-> sGit, description |-> <<"x">>]

ReasonLists ==
    {<<rbDirect>>, <<rbDep>>, <<rbDirect2>>, <<rbDirect, rbDep>>, <<rbDep, rbDep>>}

BaseItemPool ==
    {[component |-> c, file |-> f, reasons |-> rs] :
        c \in {cSvc, cSvcB}, f \in {fC, fBC}, rs \in ReasonLists}

InitBase ==
    /\ CrossIdle
    /\ GlobIdle
    /\ PipeIdle
    /\ ReportIdle
    /\ DiffIdle
    /\ bInput \in SeqsUpTo(BaseItemPool, MaxItems)
    /\ bImpacts = bInput
    /\ bPc = "loop"
    /\ bi = 1
    /\ bMap = <<>>
    /\ bResult = <<>>

\* one iteration of `for (const impact of impacts)`
BaseDedupOne ==
    /\ bPc = "loop"
    /\ bi <= Len(bImpacts)
    /\ bMap' = baseDedupStep(bMap, bImpacts[bi], bi)
    /\ bImpacts' = sharedBack(bImpacts, bMap')
    /\ bi' = bi + 1
    /\ UNCHANGED <<bInput, bPc, bResult>>
    /\ UNCHANGED <<crossVars, globVars, pipeVars, reportVars, diffVars>>

\* return Array.from(map.values())
BaseReturn ==
    /\ bPc = "loop"
    /\ bi > Len(bImpacts)
    /\ bResult' = mapValues(bMap)
    /\ bPc' = "done"
    /\ UNCHANGED <<bInput, bImpacts, bi, bMap>>
    /\ UNCHANGED <<crossVars, globVars, pipeVars, reportVars, diffVars>>

NextBase == BaseDedupOne \/ BaseReturn

SpecBase == InitBase /\ [][NextBase]_vars

-----------------------------------------------------------------------------
(* analyzeRepo and the hand-over to CrossRepoAnalyzer (src/unnamed/part_001) *)

MaxAnalyzers == 2   \* entries of config.analyzers

AnalyzerTypes == {"nx", "ts-morph", "madge", "graphql-inspector", "go-ast"}

piA == [component |-> cSvc, file |-> fC, reasons |-> <<rbDirect>>]
piA2 == [component |-> cSvc, file |-> fC, reasons |-> <<rbDep>>]
piB == [component |-> cSvc, file |-> fBC, reasons |-> <<rbDirect>>]

\* what an analyzer's analyze() has collected when it reaches its return
CollectedLists == {<<>>, <<piA>>, <<piA, piA2>>, <<piA, piB>>}

\* one analyzer's analyze() on this repository: it rejects, or it has collected
\* a list
AnalyzerRuns ==
    {[threw |-> TRUE, collected |-> <<>>]}
        \cup {[threw |-> FALSE, collected |-> l] : l \in CollectedLists}

\* analyze() of AngularAnalyzer / GraphQLAnalyzer / GoAnalyzer:
\* `return this.deduplicateImpacts(impacts)`
analyzerAnalyze(run) ==
    IF run.threw THEN [threw |-> TRUE, impacts |-> <<>>]
    ELSE [threw |-> FALSE, impacts |-> deduplicateImpacts(run.collected)]

\* the switch of analyzeRepo: analyzerImpacts for one entry of config.analyzers
analyzerImpactsFor(config, analyzerType, findings) ==
    CASE analyzerType = "ts-morph" ->
            IF config.type = "angular" THEN analyzerAnalyze(findings.tsMorph)
            ELSE [threw |-> FALSE, impacts |-> <<>>]
      [] analyzerType = "graphql-inspector" -> analyzerAnalyze(findings.graphql)
      [] analyzerType = "go-ast" -> analyzerAnalyze(findings.goAst)
      [] OTHER -> [threw |-> FALSE, impacts |-> <<>>]

RepoConfigs ==
    {[name |-> nApi, type |-> t, analyzers |-> as] :
        t \in {"angular", "go"},
        as \in SeqsUpTo(AnalyzerTypes, MaxAnalyzers) \ {<<>>}}

InitPipe ==
    /\ CrossIdle
    /\ GlobIdle
    /\ BaseIdle
    /\ ReportIdle
    /\ DiffIdle
    /\ aConfig \in RepoConfigs
    /\ aFindings \in [tsMorph : {[threw |-> TRUE, collected |-> <<>>],
                                 [threw |-> FALSE, collected |-> <<piA>>]},
                      graphql : AnalyzerRuns,
                      goAst : AnalyzerRuns]
    /\ aPc = "loop"
    /\ ai = 1
    /\ aImpacts = <<>>
    /\ handed = <<>>

\* one iteration of `for (const analyzerType of config.analyzers)`: what the
\* analyzer returns is pushed, what it throws is caught
AnalyzerOne ==
    /\ aPc = "loop"
    /\ ai <= Len(aConfig.analyzers)
    /\ LET r == analyzerImpactsFor(aConfig, aConfig.analyzers[ai], aFindings)
       IN aImpacts' = IF r.threw THEN aImpacts ELSE aImpacts \o r.impacts
    /\ ai' = ai + 1
    /\ UNCHANGED <<aConfig, aFindings, aPc, handed>>
    /\ UNCHANGED <<crossVars, globVars, baseVars, reportVars, diffVars>>

\* analyzeRepo returns { name, changedFiles, impacts, errors }
RepoReturn ==
    /\ aPc = "loop"
    /\ ai > Len(aConfig.analyzers)
    /\ aPc' = "returned"
    /\ UNCHANGED <<aConfig, aFindings, ai, aImpacts, handed>>
    /\ UNCHANGED <<crossVars, globVars, baseVars, reportVars, diffVars>>

\* runAnalysis: new CrossRepoAnalyzer(config.relations,
\*                  repoResults.map(r => ({ name: r.name, impacts: r.impacts })))
HandOver ==
    /\ aPc = "returned"
    /\ handed' = <<[name |-> aConfig.name, impacts |-> aImpacts]>>
    /\ aPc' = "handed"
    /\ UNCHANGED <<aConfig, aFindings, ai, aImpacts>>
    /\ UNCHANGED <<crossVars, globVars, baseVars, reportVars, diffVars>>

NextPipe == AnalyzerOne \/ RepoReturn \/ HandOver

SpecPipe == InitPipe /\ [][NextPipe]_vars

-----------------------------------------------------------------------------
(* The summary of runAnalysis (src/unnamed/part_001) and createGitHubCheck   *)
(* with generateAnnotations (src/src/integrations/index.ts)                  *)

MaxRepoResults == 2     \* repositories of the analysis result
BATCH == 50             \* annotations per request

strbreaking == <<"b","r","e","a","k","i","n","g">>

\* mutant of isBreakingReason: the description is compared as it is written
isBreakingReason_CaseSensitive(reason) ==
    reason.type = "schema" \/ includes(reason.description, strbreaking)

\* the test of one reason in runAnalysis and in getAnnotationLevel
isBreakingReason(reason) ==
    reason.type = "schema" \/ includes(toLowerCase(reason.description), strbreaking)

\* repoResults.some(r => r.impacts.some(i => i.reasons.some(...)))
someBreaking(results) ==
    \E r \in 1..Len(results) :
        \E i \in 1..Len(results[r].impacts) :
            \E k \in 1..Len(results[r].impacts[i].reasons) :
                isBreakingReason(results[r].impacts[i].reasons[k])

\* the lists of a list of lists, one after the other
RECURSIVE Flatten(_)
Flatten(xss) == IF xss = <<>> THEN <<>> ELSE Head(xss) \o Flatten(Tail(xss))

\* getAnnotationLevel: the loop returns at the first reason that decides
RECURSIVE getAnnotationLevel(_)
getAnnotationLevel(reasons) ==
    IF reasons = <<>> THEN "notice"
    ELSE IF isBreakingReason(Head(reasons)) THEN "failure"
    ELSE IF Head(reasons).type \in {"dependency", "config"} THEN "warning"
    ELSE getAnnotationLevel(Tail(reasons))

\* Array.prototype.join
RECURSIVE join(_, _)
join(xs, glue) ==
    IF xs = <<>> THEN <<>>
    ELSE IF Len(xs) = 1 THEN xs[1]
    ELSE xs[1] \o glue \o join(Tail(xs), glue)

\* `impact.line || 1`
lineOr1(impact) ==
    IF "line" \in DOMAIN impact /\ impact.line # 0 THEN impact.line ELSE 1

\* the annotation of one ImpactItem
impactAnnotation(impact) ==
    [path |-> impact.file,
     start_line |-> lineOr1(impact),
     end_line |-> lineOr1(impact),
     annotation_level |-> getAnnotationLevel(impact.reasons),
     title |-> <<"I","m","p","a","c","t",":"," ">> \o impact.component,
     message |-> join([k \in 1..Len(impact.reasons) |->
                          <<"[">> \o typeChars(impact.reasons[k].type) \o <<"]", " ">>
                              \o impact.reasons[k].description],
                      <<"\n">>)]

\* the annotation of one CrossRepoImpact
crossAnnotation(crossImpact) ==
    [path |-> <<"i","m","p","a","c","t","-","a","n","a","l","y","s","i","s">>,
     start_line |-> 1,
     end_line |-> 1,
     annotation_level |-> "warning",
     title |-> <<"C","r","o","s","s","-","R","e","p","o"," ","I","m","p","a","c","t",":"," ">> \o crossImpact.sourceRepo
                  \o <<" ","→"," ">> \o crossImpact.targetRepo,
     message |-> <<"C","h","a","n","g","e"," ","t","o"," ">> \o crossImpact.sourceComponent
                    \o <<" ","m","a","y"," ","a","f","f","e","c","t",":"," ">>
                    \o join(crossImpact.targetComponents, <<",", " ">>)
                    \o <<" ","(","v","i","a"," ">> \o crossImpact.relation \o <<")">>]

\* generateAnnotations: the impacts repository by repository, then the cross-repo
\* impacts
generateAnnotations(res) ==
    LET items == Flatten([r \in 1..Len(res.repos) |-> res.repos[r].impacts])
    IN [k \in 1..Len(items) |-> impactAnnotation(items[k])]
          \o [k \in 1..Len(res.crossRepoImpacts) |->
                  crossAnnotation(res.crossRepoImpacts[k])]

\* mutant of slice: the end index is taken as included
slice_Inclusive(xs, from, to) ==
    SubSeq(xs, from + 1, IF to + 1 < Len(xs) THEN to + 1 ELSE Len(xs))

\* Array.prototype.slice(from, to), 0-based, to exclusive
slice(xs, from, to) ==
    SubSeq(xs, from + 1, IF to < Len(xs) THEN to ELSE Len(xs))

\* updateCheckWithMoreAnnotations: the batches of at most BATCH annotations
RECURSIVE batchesFrom(_, _)
batchesFrom(anns, i) ==
    IF i < Len(anns)
    THEN <<slice(anns, i, i + BATCH)>> \o batchesFrom(anns, i + BATCH)
    ELSE <<>>

\* reasons of the results
rBreaking == [type |-> "direct", source |-> sGit, description |-> <<"B","R","E","A","K","I","N","G"," ","c","h","a","n","g","e">>]
rConfig == [type |-> "config", source |-> sGit, description |-> <<"x">>]

ReportReasons == {rbDirect, rbDep, rSchema, rBreaking, rConfig}

\* the impacts one repository may report: none, or one item with one or two reasons
ReportImpacts ==
    {<<>>} \cup
    {<<[component |-> cSvc, file |-> fC, reasons |-> rs]>> :
        rs \in {<<a>> : a \in ReportReasons}
                 \cup {<<a, b>> : a \in ReportReasons, b \in ReportReasons}}

\* cross-repo impacts: none, or one whose texts hold the word breaking
ReportCross ==
    {<<>>,
     <<[sourceRepo |-> nApi, sourceComponent |-> strbreaking, targetRepo |-> nWeb,
        targetComponents |-> <<cQuery, strbreaking>>, relation |-> GRAPHQL_SCHEMA]>>}

InitReport ==
    /\ CrossIdle
    /\ GlobIdle
    /\ BaseIdle
    /\ PipeIdle
    /\ DiffIdle
    /\ \E n \in 1..MaxRepoResults :
          repoResults \in [1..n -> {[name |-> nm, impacts |-> l] :
                                      nm \in {nApi}, l \in ReportImpacts}]
    /\ crossRepoImpacts \in ReportCross
    /\ hasBreakingChanges = FALSE
    /\ annotations = <<>>
    /\ requests = <<>>
    /\ batches = <<>>
    /\ bj = 1
    /\ rPc = "summary"

\* runAnalysis: const hasBreakingChanges = repoResults.some(...), put in the
\* summary of the analysis result
Summarize ==
    /\ rPc = "summary"
    /\ hasBreakingChanges' = someBreaking(repoResults)
    /\ rPc' = "check"
    /\ UNCHANGED <<repoResults, crossRepoImpacts, annotations, requests, batches, bj>>
    /\ UNCHANGED <<crossVars, globVars, baseVars, pipeVars, diffVars>>

\* createGitHubCheck: const annotations = generateAnnotations(result)
Annotate ==
    /\ rPc = "check"
    /\ annotations' = generateAnnotations([repos |-> repoResults,
                                           crossRepoImpacts |-> crossRepoImpacts])
    /\ rPc' = "post"
    /\ UNCHANGED <<repoResults, crossRepoImpacts, hasBreakingChanges, requests,
                   batches, bj>>
    /\ UNCHANGED <<crossVars, globVars, baseVars, pipeVars, diffVars>>

NextReport == Summarize \/ Annotate

SpecReport == InitReport /\ [][NextReport]_vars

-----------------------------------------------------------------------------
(* createGitHubCheck on results with many impacts: the POST and the PATCHes *)

MaxAnnotations == 101   \* impacts of the repository of the result

\* what a fetch call comes to: a response with ok, a response without, or a
\* rejected promise
FetchOutcomes == {"ok", "not ok", "rejected"}

InitCheck ==
    /\ CrossIdle
    /\ GlobIdle
    /\ BaseIdle
    /\ PipeIdle
    /\ DiffIdle
    /\ \E n \in 0..MaxAnnotations :
          repoResults =
              <<[name |-> nApi,
                 impacts |-> [k \in 1..n |->
                                 [component |-> cSvc, file |-> fC, line |-> k - 1,
                                  reasons |-> <<rbDirect>>]]]>>
    /\ crossRepoImpacts \in ReportCross
    /\ hasBreakingChanges = someBreaking(repoResults)
    /\ annotations = <<>>
    /\ requests = <<>>
    /\ batches = <<>>
    /\ bj = 1
    /\ rPc = "check"

\* createGitHubCheck: the POST that creates the check run with the first BATCH
\* annotations; a response that is not ok, or a fetch that rejects, raises; with
\* more than BATCH annotations updateCheckWithMoreAnnotations is entered and
\* builds its batches
Post ==
    /\ rPc = "post"
    /\ \E outcome \in FetchOutcomes :
          /\ requests' = Append(requests,
                                [method |-> "POST",
                                 annotations |-> slice(annotations, 0, BATCH),
                                 outcome |-> outcome])
          /\ IF outcome # "ok"
             THEN /\ rPc' = "threw"
                  /\ UNCHANGED <<batches, bj>>
             ELSE IF Len(annotations) > BATCH
                  THEN /\ batches' = batchesFrom(
                                         slice(annotations, BATCH, Len(annotations)), 0)
                       /\ bj' = 1
                       /\ rPc' = "patch"
                  ELSE /\ rPc' = "done"
                       /\ UNCHANGED <<batches, bj>>
    /\ UNCHANGED <<repoResults, crossRepoImpacts, hasBreakingChanges, annotations>>
    /\ UNCHANGED <<crossVars, globVars, baseVars, pipeVars, diffVars>>

\* updateCheckWithMoreAnnotations: one iteration of `for (const batch of batches)`;
\* a response that is not ok is only warned about, a fetch that rejects raises
Patch ==
    /\ rPc = "patch"
    /\ bj <= Len(batches)
    /\ \E outcome \in FetchOutcomes :
          /\ requests' = Append(requests,
                                [method |-> "PATCH",
                                 annotations |-> batches[bj],
                                 outcome |-> outcome])
          /\ rPc' = IF outcome = "rejected" THEN "threw"
                    ELSE IF bj = Len(batches) THEN "done"
                    ELSE "patch"
    /\ bj' = bj + 1
    /\ UNCHANGED <<repoResults, crossRepoImpacts, hasBreakingChanges, annotations,
                   batches>>
    /\ UNCHANGED <<crossVars, globVars, baseVars, pipeVars, diffVars>>

NextCheck == Annotate \/ Post \/ Patch

SpecCheck == InitCheck /\ [][NextCheck]_vars

-----------------------------------------------------------------------------
(* BaseAnalyzer.getChangedFiles (src/src/analyzers/base.ts) *)

MaxStdout == 4      \* characters git writes to stdout

\* String.prototype.trim, for the blanks and line ends of the outputs here
RECURSIVE trim(_)
trim(line) ==
    IF line = <<>> THEN <<>>
    ELSE IF Head(line) \in {" ", "\n"} THEN trim(Tail(line))
    ELSE IF line[Len(line)] \in {" ", "\n"} THEN trim(SubSeq(line, 1, Len(line) - 1))
    ELSE line

\* String.prototype.split on a one-character separator
RECURSIVE split(_, _)
split(s, c) ==
    LET k == indexOf(s, c)
    IN IF k = 0 THEN <<s>>
       ELSE <<SubSeq(s, 1, k - 1)>> \o split(SubSeq(s, k + 1, Len(s)), c)

\* stdout.split('\n').map((line) => line.trim()).filter(Boolean)
fileList(stdout) ==
    LET lines == split(stdout, "\n")
        trimmed == [k \in 1..Len(lines) |-> trim(lines[k])]
        nonEmpty(l) == l # <<>>
    IN SelectSeq(trimmed, nonEmpty)

\* what git may write: file names, blanks and line ends
Stdouts == SeqsUpTo({"a", " ", "\n"}, MaxStdout)

\* the arguments of the two git calls, for the refs base and head
threeDotArgs == <<"diff", "--name-only", "base...head">>
twoRefArgs == <<"diff", "--name-only", "base", "head">>

InitDiff ==
    /\ CrossIdle
    /\ GlobIdle
    /\ BaseIdle
    /\ PipeIdle
    /\ ReportIdle
    /\ dPc = "call"
    /\ dLog = <<>>
    /\ dFiles = <<>>

\* the outer try: git diff --name-only base...head; the call returns its file
\* list, or the catch block is entered
ThreeDotDiff ==
    /\ dPc = "call"
    /\ \/ \E stdout \in Stdouts :
             /\ dLog' = Append(dLog, [args |-> threeDotArgs, ok |-> TRUE,
                                      stdout |-> stdout])
             /\ dFiles' = fileList(stdout)
             /\ dPc' = "done"
       \/ /\ dLog' = Append(dLog, [args |-> threeDotArgs, ok |-> FALSE,
                                    stdout |-> <<>>])
          /\ dPc' = "fallback"
          /\ UNCHANGED dFiles
    /\ UNCHANGED <<crossVars, globVars, baseVars, pipeVars, reportVars>>

\* mutant of TwoRefDiff: the second diff also runs after a first one that
\* succeeded
TwoRefDiff_AfterSuccess ==
    /\ dPc \in {"fallback", "done"}
    /\ Len(dLog) = 1
    /\ \E stdout \in Stdouts :
          /\ dLog' = Append(dLog, [args |-> twoRefArgs, ok |-> TRUE, stdout |-> stdout])
          /\ dFiles' = fileList(stdout)
          /\ dPc' = "done"
    /\ UNCHANGED <<crossVars, globVars, baseVars, pipeVars, reportVars>>

\* the catch block: git diff --name-only base head; the call returns its file
\* list, or the empty list when this diff fails too
TwoRefDiff ==
    /\ dPc = "fallback"
    /\ \/ \E stdout \in Stdouts :
             /\ dLog' = Append(dLog, [args |-> twoRefArgs, ok |-> TRUE,
                                      stdout |-> stdout])
             /\ dFiles' = fileList(stdout)
       \/ /\ dLog' = Append(dLog, [args |-> twoRefArgs, ok |-> FALSE,
                                    stdout |-> <<>>])
          /\ dFiles' = <<>>
    /\ dPc' = "done"
    /\ UNCHANGED <<crossVars, globVars, baseVars, pipeVars, reportVars>>

NextDiff == ThreeDotDiff \/ TwoRefDiff

SpecDiff == InitDiff /\ [][NextDiff]_vars

-----------------------------------------------------------------------------
(* Vocabulary of the properties: the trigger and consumer predicates as the  *)
(* design's table states them, and the tuple that identifies a record.       *)

Returned == pc = "done"

RepoNames == {repoImpacts[k].name : k \in 1..Len(repoImpacts)}

\* the impacts of the repository called name
ImpactsOf(name) ==
    LET k == CHOOSE x \in 1..Len(repoImpacts) :
                /\ repoImpacts[x].name = name
                /\ \A y \in 1..(x - 1) : repoImpacts[y].name # name
    IN Range(repoImpacts[k].impacts)

BothPresent(rel) == rel.from \in RepoNames /\ rel.to \in RepoNames

ReasonTypes(i) == {i.reasons[k].type : k \in 1..Len(i.reasons)}

Descriptions(i) == {i.reasons[k].description : k \in 1..Len(i.reasons)}

\* column "Trigger in source repo"
TableTrigger(via, i) ==
    CASE via = GRAPHQL_SCHEMA ->
            \/ "schema" \in ReasonTypes(i)
            \/ endsWith(i.file, dotGraphql) \/ endsWith(i.file, dotGql)
            \/ includes(i.component, strQuery) \/ includes(i.component, strMutation)
      [] via = SQS_VIA ->
            \/ includes(i.component, strSQS)
            \/ \E d \in Descriptions(i) : includes(toLowerCase(d), strsqs)
      [] via = SHARED_TYPES ->
            \/ \E w \in {strtypes, strinterfaces, strmodels} : includes(i.file, w)
            \/ \E w \in {strType, strInterface, strStruct} : includes(i.component, w)
      [] via = API_CALL ->
            \/ \E w \in {strAPI, strHandler, strController, strEndpoint} :
                    includes(i.component, w)
            \/ \E w \in {strcontroller, strhandler, strroutes} : includes(i.file, w)
      [] via = NPM_PACKAGE ->
            \/ "dependency" \in ReasonTypes(i)
            \/ i.file = strPackageJson
            \/ endsWith(i.file, strGoMod)
      [] OTHER -> FALSE

\* the built-in part of column "Consumer in target repo"
TableBuiltinConsumer(via, i) ==
    CASE via = GRAPHQL_SCHEMA ->
            \/ endsWith(i.file, dotGraphql) \/ endsWith(i.file, dotGql)
            \/ \E w \in {strquery, strmutation, strapollo, strgraphql} : includes(i.file, w)
      [] via = SQS_VIA ->
            \/ includes(i.component, strSQS)
            \/ \E d \in Descriptions(i) : includes(toLowerCase(d), strsqs)
      [] via = SHARED_TYPES -> TRUE
      [] via = API_CALL ->
            \/ \E w \in {strservice, strapi, strhttp, strfetch} : includes(i.file, w)
            \/ includes(i.component, strService)
      [] via = NPM_PACKAGE -> TRUE
      [] OTHER -> FALSE

\* the file matches one of the relation's patterns (graphql-schema reads them)
MatchesAPattern(rel, i) ==
    /\ rel.via = GRAPHQL_SCHEMA
    /\ "patterns" \in DOMAIN rel
    /\ \E k \in 1..Len(rel.patterns) : matchesPattern(i.file, rel.patterns[k]).value

TableConsumer(rel, i) == TableBuiltinConsumer(rel.via, i) \/ MatchesAPattern(rel, i)

Triggers(rel) == {i \in ImpactsOf(rel.from) : TableTrigger(rel.via, i)}

Consumers(rel) == {i \in ImpactsOf(rel.to) : TableConsumer(rel, i)}

ComponentsOf(items) == {i.component : i \in items}

TupleOf(r) == <<r.sourceRepo, r.sourceComponent, r.targetRepo, r.relation>>

NoRepeat(xs) == Cardinality(Range(xs)) = Len(xs)

\* the impacts of the repository called name, in their order
ImpactListOf(name) ==
    LET k == CHOOSE x \in 1..Len(repoImpacts) :
                /\ repoImpacts[x].name = name
                /\ \A y \in 1..(x - 1) : repoImpacts[y].name # name
    IN repoImpacts[k].impacts

\* the pair that identifies an ImpactItem
PairOf(i) == <<i.component, i.file>>

\* the (type, source) pairs of the reasons of an ImpactItem
ReasonPairs(i) == {<<i.reasons[k].type, i.reasons[k].source>> : k \in 1..Len(i.reasons)}

\* index of the first item of xs with the pair q, 0 when there is none
FirstPair(xs, q) ==
    IF \E k \in 1..Len(xs) : PairOf(xs[k]) = q
    THEN CHOOSE k \in 1..Len(xs) :
            /\ PairOf(xs[k]) = q
            /\ \A j \in 1..(k - 1) : PairOf(xs[j]) # q
    ELSE 0

\* index of the first record of xs with the tuple t, 0 when there is none
FirstIndex(xs, t) ==
    IF \E k \in 1..Len(xs) : TupleOf(xs[k]) = t
    THEN CHOOSE k \in 1..Len(xs) :
            /\ TupleOf(xs[k]) = t
            /\ \A j \in 1..(k - 1) : TupleOf(xs[j]) # t
    ELSE 0

-----------------------------------------------------------------------------
(* Properties *)

\* C1: when analyze() returns, for every (sourceRepo, sourceComponent, targetRepo,
\* relation) tuple among the raw records there is exactly one returned record, and
\* its targetComponents, as a set, is the union of the targetComponents of the raw
\* records with that tuple.
C1_OneRecordPerTuple ==
    Returned =>
        \A t \in {TupleOf(crossImpacts[k]) : k \in 1..Len(crossImpacts)} :
            LET hits == {k \in 1..Len(result) : TupleOf(result[k]) = t}
                raw == {k \in 1..Len(crossImpacts) : TupleOf(crossImpacts[k]) = t}
            IN /\ Cardinality(hits) = 1
               /\ \A k \in hits :
                    Range(result[k].targetComponents)
                        = UNION {Range(crossImpacts[j].targetComponents) : j \in raw}

\* C2: no returned record holds the same component name twice in targetComponents.
C2_NoRepeatedTarget ==
    Returned => \A k \in 1..Len(result) : NoRepeat(result[k].targetComponents)

\* C3 (P1): a relation whose source repository has no impact satisfying the kind's
\* trigger predicate contributes no record.
C3_NoTriggerNoRecord ==
    \A k \in 1..Len(emitted) :
        (BothPresent(relations[k]) /\ Triggers(relations[k]) = {}) => emitted[k] = <<>>

\* C4 (P2): a relation with a satisfied trigger but no target impact that satisfies
\* the consumer predicate or matches a pattern contributes no record, and no returned
\* record has an empty targetComponents.
C4_NoConsumerNoRecord ==
    /\ \A k \in 1..Len(emitted) :
          (/\ BothPresent(relations[k])
           /\ Triggers(relations[k]) # {}
           /\ Consumers(relations[k]) = {}) => emitted[k] = <<>>
    /\ Returned => \A k \in 1..Len(result) : result[k].targetComponents # <<>>

C4_Witness ==
    /\ Returned
    /\ \E k \in 1..Len(emitted) :
          /\ BothPresent(relations[k])
          /\ Triggers(relations[k]) # {}
          /\ ImpactsOf(relations[k].to) # {}
          /\ Consumers(relations[k]) = {}
          /\ emitted[k] = <<>>

\* C5 (P3): a relation that names an absent repository contributes no record and
\* does not raise, and the loop goes on to the relations after it.
C5_MissingRepoSkipped ==
    /\ \A k \in 1..Len(emitted) : ~BothPresent(relations[k]) => emitted[k] = <<>>
    /\ pc = "threw" => BothPresent(relations[ri])
    /\ pc \in {"dedup", "done"} => Len(emitted) = Len(relations)

C5_Witness ==
    /\ Returned
    /\ Len(relations) = 2
    /\ ~BothPresent(relations[1])
    /\ emitted[1] = <<>>
    /\ emitted[2] # <<>>
    /\ result # <<>>

\* C6: analyze() never raises.
C6_NeverRaises == pc # "threw"

\* C7 (P4): the merge pass applied to its own output returns the same records in
\* the same order, with equal targetComponents sets.
C7_DedupIdempotent ==
    Returned =>
        LET again == deduplicateCrossImpacts(result)
        IN /\ Len(again) = Len(result)
           /\ \A k \in 1..Len(result) :
                /\ TupleOf(again[k]) = TupleOf(result[k])
                /\ Range(again[k].targetComponents) = Range(result[k].targetComponents)

C7_Witness ==
    /\ Returned
    /\ Len(crossImpacts) = 3
    /\ Len(result) = 2
    /\ \E k \in 1..Len(result) : ~NoRepeat(result[k].targetComponents)

\* C8: one relation, both repositories present, a non-empty consumer set: for every
\* source impact that satisfies the trigger predicate the result holds a record with
\* that impact's component, the relation's from / to / via, and the whole consumer
\* set as targetComponents.
C8_RecordPerTrigger ==
    (/\ Returned
     /\ Len(relations) = 1
     /\ BothPresent(relations[1])
     /\ Consumers(relations[1]) # {}) =>
        \A i \in Triggers(relations[1]) :
            \E k \in 1..Len(result) :
                /\ TupleOf(result[k]) =
                     <<relations[1].from, i.component, relations[1].to, relations[1].via>>
                /\ Range(result[k].targetComponents)
                     = ComponentsOf(Consumers(relations[1]))

C8_Witness ==
    /\ Returned
    /\ Len(relations) = 1
    /\ BothPresent(relations[1])
    /\ Cardinality(ComponentsOf(Triggers(relations[1]))) = 2
    /\ Cardinality(ComponentsOf(Consumers(relations[1]))) = 2
    /\ Len(result) = 2

\* C9: every record a shared-types or npm-package relation emits carries, as a set,
\* the component names of all impacts of the target repository.
C9_AllTargetComponents ==
    \A k \in 1..Len(emitted) :
        relations[k].via \in {SHARED_TYPES, NPM_PACKAGE} =>
            \A j \in 1..Len(emitted[k]) :
                Range(emitted[k][j].targetComponents)
                    = ComponentsOf(ImpactsOf(relations[k].to))

C9_Witness ==
    \E k \in 1..Len(emitted) :
        /\ relations[k].via = SHARED_TYPES
        /\ emitted[k] # <<>>
        /\ \E i \in ImpactsOf(relations[k].to) :
              /\ ~TableTrigger(SHARED_TYPES, i)
              /\ i.component \in Range(emitted[k][1].targetComponents)
        /\ Cardinality(ComponentsOf(ImpactsOf(relations[k].to))) = 2

\* C10: for a graphql-schema relation with patterns, a target impact whose file
\* matches a pattern is a consumer even when it fails the built-in predicate, and a
\* target impact that satisfies the built-in predicate is a consumer whatever the
\* patterns are.
C10_PatternsOnlyAdd ==
    \A k \in 1..Len(emitted) :
        (/\ relations[k].via = GRAPHQL_SCHEMA
         /\ "patterns" \in DOMAIN relations[k]
         /\ BothPresent(relations[k])
         /\ Triggers(relations[k]) # {}) =>
            \A i \in ImpactsOf(relations[k].to) :
                (MatchesAPattern(relations[k], i)
                    \/ TableBuiltinConsumer(GRAPHQL_SCHEMA, i)) =>
                    /\ emitted[k] # <<>>
                    /\ \A j \in 1..Len(emitted[k]) :
                          i.component \in Range(emitted[k][j].targetComponents)

C10_Witness ==
    \E k \in 1..Len(emitted) :
        /\ relations[k].via = GRAPHQL_SCHEMA
        /\ "patterns" \in DOMAIN relations[k]
        /\ emitted[k] # <<>>
        /\ \E i \in ImpactsOf(relations[k].to) :
              /\ ~TableBuiltinConsumer(GRAPHQL_SCHEMA, i)
              /\ MatchesAPattern(relations[k], i)
              /\ i.component \in Range(emitted[k][1].targetComponents)
        /\ \E i \in ImpactsOf(relations[k].to) :
              /\ TableBuiltinConsumer(GRAPHQL_SCHEMA, i)
              /\ ~MatchesAPattern(relations[k], i)
              /\ i.component \in Range(emitted[k][1].targetComponents)

\* C11: matchesPattern returns true for every glob P/**/S and every path
\* P/d1/.../dn/S with n >= 1 directory segments between P and S.
C11_DoubleStarCrossesSeparators ==
    gPc = "done" =>
        \A P \in GlobPrefixes, S \in GlobNames, ds \in DirSeqs \ {<<>>} :
            (gPattern = DoubleStar(P, S) /\ gPath = joinPath(<<P>> \o ds \o <<S>>))
                => gResult

\* C12: the glob *.ts (one `*`, no `**`) does not match a path with directory
\* segments before the file name, and **/*.ts matches every such path that ends
\* in .ts.
C12_SingleStarStaysInSegment ==
    (gPc = "done" /\ includes(gPath, <<"/">>) /\ endsWith(gPath, <<".","t","s">>)) =>
        /\ gPattern = pStarTs => ~gResult
        /\ gPattern = pTs => gResult

\* C13: every record an npm-package relation contributes comes from a source
\* impact that has a reason of type dependency, or whose file is package.json, or
\* whose file ends in go.mod; a file that only contains the text package.json is
\* no trigger.
C13_NpmTriggerExact ==
    \A k \in 1..Len(emitted) :
        relations[k].via = NPM_PACKAGE =>
            \A j \in 1..Len(emitted[k]) :
                \E i \in ImpactsOf(relations[k].from) :
                    /\ i.component = emitted[k][j].sourceComponent
                    /\ TableTrigger(NPM_PACKAGE, i)

\* C14: the raw records are the relations' records in declaration order, each
\* relation's records follow the order of the qualifying source impacts, and the
\* returned records are ordered by the first occurrence of their tuple among the
\* raw records: a merge moves nothing.
C14_FirstSeenOrder ==
    /\ crossImpacts = Flatten(emitted)
    /\ \A k \in 1..Len(emitted) :
          emitted[k] # <<>> =>
            LET trig(i) == TableTrigger(relations[k].via, i)
                qualifying == SelectSeq(ImpactListOf(relations[k].from), trig)
            IN [j \in 1..Len(emitted[k]) |-> emitted[k][j].sourceComponent]
                  = [j \in 1..Len(qualifying) |-> qualifying[j].component]
    /\ Returned =>
          /\ \A a \in 1..Len(result) : FirstIndex(crossImpacts, TupleOf(result[a])) # 0
          /\ \A a, b \in 1..Len(result) :
                a < b => FirstIndex(crossImpacts, TupleOf(result[a]))
                            < FirstIndex(crossImpacts, TupleOf(result[b]))

C14_Witness ==
    /\ Returned
    /\ Len(relations) = 2
    /\ Len(emitted[1]) = 2
    /\ Len(crossImpacts) = 3
    /\ Len(result) = 2
    /\ TupleOf(result[1]) = TupleOf(crossImpacts[1])
    /\ TupleOf(result[2]) = TupleOf(crossImpacts[2])
    /\ Range(result[1].targetComponents) =
          Range(crossImpacts[1].targetComponents) \cup Range(crossImpacts[3].targetComponents)

\* C15: a relation whose via is none of the five kinds contributes no record, is
\* never the relation that raises, and the result is the one analyze() returns
\* for the list without such relations.
C15_UnknownViaSkipped ==
    LET known(rel) == \E k \in 1..Len(KnownVias) : rel.via = KnownVias[k]
        others == SelectSeq(relations, known)
    IN /\ \A k \in 1..Len(emitted) : ~known(relations[k]) => emitted[k] = <<>>
       /\ pc = "threw" => known(relations[ri])
       /\ Returned =>
             result = deduplicateCrossImpacts(
                        Flatten([k \in 1..Len(others) |->
                                    analyzeRelation(repoImpacts, others[k]).impacts]))

C15_Witness ==
    /\ Returned
    /\ Len(relations) = 2
    /\ relations[1].via = UNKNOWN_VIA
    /\ Triggers([relations[1] EXCEPT !.via = NPM_PACKAGE]) # {}
    /\ ImpactsOf(relations[1].to) # {}
    /\ emitted[1] = <<>>
    /\ emitted[2] # <<>>
    /\ result = emitted[2]

\* C16: analyze() never changes the relation list or the RepoImpacts list, and
\* when it has returned, the targetComponents array of a returned record is no
\* array of a raw record, of another returned record, or of the input (the
\* patterns arrays, identities 1..Len(relations)).
C16_NoAliasInputsKept ==
    /\ [](Returned =>
            \A k \in 1..Len(result) :
                /\ resultRefs[k] \notin Range(rawRefs)
                /\ resultRefs[k] \notin 1..Len(relations)
                /\ \A j \in 1..Len(result) : j # k => resultRefs[j] # resultRefs[k])
    /\ [][relations' = relations /\ repoImpacts' = repoImpacts]_vars

C16_Witness ==
    /\ Returned
    /\ Len(crossImpacts) = 3
    /\ rawRefs[1] = rawRefs[2]
    /\ Len(result) = 2
    /\ resultRefs[1] # resultRefs[2]
    /\ Len(resultRefs) = 2

\* C17: all completed calls of analyze() on one instance returned the same list
\* (same records, same order, same targetComponents), and that list is the value
\* the inputs determine, so an instance built from equal inputs returns it too.
C17_NoMemoryBetweenRuns ==
    \A a \in 1..Len(returned) :
        /\ returned[a] = returned[1]
        /\ returned[a] = deduplicateCrossImpacts(
                            Flatten([k \in 1..Len(relations) |->
                                        analyzeRelation(repoImpacts, relations[k]).impacts]))

C17_Witness ==
    /\ Returned
    /\ calls = 2
    /\ Len(returned) = 2
    /\ Len(returned[2]) = 2
    /\ \E k \in 1..Len(result) : ~NoRepeat(result[k].targetComponents)

\* C18: deduplicateImpacts returns at most one item per (component, file), the
\* items in the order in which their pairs first occur in the input, and the
\* reasons of a returned item cover every (type, source) of every input item
\* with the same component and file.
C18_OneItemPerPair ==
    bPc = "done" =>
        /\ \A j, k \in 1..Len(bResult) :
              j < k =>
                /\ PairOf(bResult[j]) # PairOf(bResult[k])
                /\ FirstPair(bInput, PairOf(bResult[j]))
                      < FirstPair(bInput, PairOf(bResult[k]))
        /\ \A k \in 1..Len(bResult) :
              /\ FirstPair(bInput, PairOf(bResult[k])) # 0
              /\ \A n \in 1..Len(bInput) :
                    PairOf(bInput[n]) = PairOf(bResult[k])
                        => ReasonPairs(bInput[n]) \subseteq ReasonPairs(bResult[k])

C18_Witness ==
    /\ bPc = "done"
    /\ Len(bInput) = 2
    /\ PairOf(bInput[1]) = PairOf(bInput[2])
    /\ ~(ReasonPairs(bInput[2]) \subseteq ReasonPairs(bInput[1]))
    /\ Len(bResult) = 1
    /\ Cardinality(ReasonPairs(bResult[1])) = 2

\* C19: no item deduplicateImpacts returns has two reasons with the same
\* (type, source).
C19_NoRepeatedReason ==
    bPc = "done" =>
        \A k \in 1..Len(bResult) :
            \A a, b \in 1..Len(bResult[k].reasons) :
                a # b =>
                    <<bResult[k].reasons[a].type, bResult[k].reasons[a].source>>
                        # <<bResult[k].reasons[b].type, bResult[k].reasons[b].source>>

\* C20: the impact list of every repository handed to CrossRepoAnalyzer holds no
\* two items with the same (component, file).
C20_HandedListDeduplicated ==
    aPc = "handed" =>
        \A n \in 1..Len(handed) :
            \A j, k \in 1..Len(handed[n].impacts) :
                j < k => PairOf(handed[n].impacts[j]) # PairOf(handed[n].impacts[k])

\* the tokens from k on match s from position p exactly to its end
RECURSIVE wholeMatch(_, _, _, _)
wholeMatch(toks, k, s, p) ==
    IF k > Len(toks) THEN p = Len(s) + 1
    ELSE IF toks[k].star
         THEN \/ wholeMatch(toks, k + 1, s, p)
              \/ /\ p <= Len(s)
                 /\ accepts(toks[k], s[p])
                 /\ wholeMatch(toks, k, s, p + 1)
         ELSE /\ p <= Len(s)
              /\ accepts(toks[k], s[p])
              /\ wholeMatch(toks, k + 1, s, p + 1)

\* the contiguous substrings of s, the empty one included
Substrings(s) ==
    {SubSeq(s, a, b) : a \in 1..(Len(s) + 1), b \in 0..Len(s)}

C24_InputNotModified ==
    bPc = "done" =>
        /\ Len(bImpacts) = Len(bInput)
        /\ \A k \in 1..Len(bInput) : bImpacts[k].reasons = bInput[k].reasons

\* C25: the merge pass never merges two raw records whose (sourceRepo,
\* sourceComponent, targetRepo, relation) tuples differ: every raw record the
\* pass has taken sits in a map entry that was created by a record with the same
\* tuple, also when a repo or component name contains the text "::".
C25_KeyInjective ==
    \A j \in 1..Len(crossImpacts) :
        (pc \in {"dedup", "done"} /\ j < di) =>
            LET e == mapGet(map, keyOf(crossImpacts[j]))
            IN /\ e # 0
               /\ TupleOf(map[e].value) = TupleOf(crossImpacts[j])

\* C26: every record analyze() returns is justified by the inputs: a declared
\* relation has its from, to and via, with both repositories present; its
\* sourceComponent is the component of an impact of the source repository that
\* satisfies the trigger of that via; every target component is the component of
\* an impact of the target repository. With no relation the result is empty.
C26_RecordsJustified ==
    Returned =>
        /\ relations = <<>> => result = <<>>
        /\ \A k \in 1..Len(result) :
              \E j \in 1..Len(relations) :
                 /\ relations[j].from = result[k].sourceRepo
                 /\ relations[j].to = result[k].targetRepo
                 /\ relations[j].via = result[k].relation
                 /\ BothPresent(relations[j])
                 /\ result[k].sourceComponent \in ComponentsOf(Triggers(relations[j]))
                 /\ Range(result[k].targetComponents)
                        \subseteq ComponentsOf(ImpactsOf(result[k].targetRepo))

\* the relation with its patterns replaced: absent, or one of some lists
PatternVariants(rel) ==
    IF rel.via = GRAPHQL_SCHEMA THEN {rel}
    ELSE {[from |-> rel.from, to |-> rel.to, via |-> rel.via]}
            \cup {[from |-> rel.from, to |-> rel.to, via |-> rel.via, patterns |-> ps] :
                     ps \in {<<pTs>>, <<pParen, pTs>>}}

\* the relation lists that differ from rels only in the patterns of relations
\* whose via is not graphql-schema
PatternVariantLists(rels) ==
    {rs \in [1..Len(rels) -> UNION {PatternVariants(rels[k]) : k \in 1..Len(rels)}] :
        \A k \in 1..Len(rels) : rs[k] \in PatternVariants(rels[k])}

TuplesOf(xs) == {TupleOf(xs[k]) : k \in 1..Len(xs)}

\* the target components the records of xs with the tuple t hold, as a set
TargetsOf(xs, t) ==
    UNION {Range(xs[k].targetComponents) : k \in {j \in 1..Len(xs) : TupleOf(xs[j]) = t}}

\* C28: relations are processed independently. When analyze() returns for the
\* relation list R1 ++ R2, its records have exactly the (sourceRepo,
\* sourceComponent, targetRepo, relation) keys of analyze(R1) and analyze(R2)
\* together, and for each key the target set is the union of the target sets
\* analyze(R1) and analyze(R2) give for it; two relations with the same from and
\* to and different via never contribute to the same record.
C28_RelationsIndependent ==
    Returned =>
        /\ \A n \in 0..Len(relations) :
              LET a1 == analyze(repoImpacts, SubSeq(relations, 1, n)).value
                  a2 == analyze(repoImpacts, SubSeq(relations, n + 1, Len(relations))).value
              IN /\ TuplesOf(result) = TuplesOf(a1) \cup TuplesOf(a2)
                 /\ \A t \in TuplesOf(result) :
                       TargetsOf(result, t) = TargetsOf(a1, t) \cup TargetsOf(a2, t)
        /\ \A j, k \in 1..Len(relations) :
              (/\ relations[j].from = relations[k].from
               /\ relations[j].to = relations[k].to
               /\ relations[j].via # relations[k].via)
                  => \A a \in 1..Len(emitted[j]), b \in 1..Len(emitted[k]) :
                        keyOf(emitted[j][a]) # keyOf(emitted[k][b])

\* the text d contains the word w, letter case ignored
ContainsIgnoringCase(d, w) ==
    \E u \in Substrings(d) :
        /\ Len(u) = Len(w)
        /\ \A k \in 1..Len(w) : lowerChar(u[k]) = lowerChar(w[k])

\* a reason that makes a change breaking: type schema, or the word breaking in
\* its description
BreakingReason(reason) ==
    reason.type = "schema" \/ ContainsIgnoringCase(reason.description, strbreaking)

\* the impacts of all repositories of the result, in their order
AllImpacts == Flatten([r \in 1..Len(repoResults) |-> repoResults[r].impacts])

\* C21: summary.hasBreakingChanges computed by runAnalysis is true if and only if
\* some impact of some repository has a reason whose type is schema or whose
\* description contains "breaking", letter case ignored; the cross-repo impacts
\* do not influence it.
C21_BreakingFlag ==
    rPc \in {"check", "post"} =>
        (hasBreakingChanges <=>
            \E k \in 1..Len(AllImpacts) :
                \E j \in 1..Len(AllImpacts[k].reasons) :
                    BreakingReason(AllImpacts[k].reasons[j]))

\* the flag was set by a description that holds the word in capitals, no reason
\* being of type schema
C21_Witness ==
    /\ rPc = "check"
    /\ hasBreakingChanges
    /\ \A k \in 1..Len(AllImpacts) :
          \A j \in 1..Len(AllImpacts[k].reasons) :
              AllImpacts[k].reasons[j].type # "schema"

\* C22: generateAnnotations gives annotation_level failure to every impact that
\* has a reason of type schema or a reason whose description contains
\* "breaking" (letter case ignored), whatever the position of that reason;
\* otherwise warning if some reason is of type dependency or config; otherwise
\* notice.
C22_AnnotationLevel ==
    rPc = "post" =>
        \A k \in 1..Len(AllImpacts) :
            LET rs == AllImpacts[k].reasons
                level == annotations[k].annotation_level
            IN IF \E j \in 1..Len(rs) : BreakingReason(rs[j])
               THEN level = "failure"
               ELSE IF \E j \in 1..Len(rs) : rs[j].type \in {"dependency", "config"}
                    THEN level = "warning"
                    ELSE level = "notice"

\* the annotations the requests made so far carried, in the order sent
Sent == Flatten([k \in 1..Len(requests) |-> requests[k].annotations])

C30_ChangedFilesFallback ==
    /\ dPc \in {"idle", "call", "fallback", "done"}
    /\ Len(dLog) <= 2
    /\ Len(dLog) >= 1 => dLog[1].args = <<"diff", "--name-only", "base...head">>
    /\ Len(dLog) = 2 =>
          /\ ~dLog[1].ok
          /\ dLog[2].args = <<"diff", "--name-only", "base", "head">>
    /\ dPc = "done" =>
          /\ dLog # <<>>
          /\ IF dLog[Len(dLog)].ok
             THEN dFiles = fileList(dLog[Len(dLog)].stdout)
             ELSE Len(dLog) = 2 /\ dFiles = <<>>

\* the three-dot diff failed and the two-ref diff gave the files
C30_Witness ==
    /\ dPc = "done"
    /\ Len(dLog) = 2
    /\ dLog[2].ok
    /\ Len(dFiles) = 2

====
